---- MODULE Spec2Model ----
(***************************************************************************)
(* The chain-query client of mesh-dash (src/substrate/chain_functions.py): *)
(* the Hypertensor class, its one shared SubstrateInterface connection,    *)
(* the tenacity retry wrapper around every query, and get_subnet_slot's    *)
(* reconnecting retry.                                                     *)
(*                                                                         *)
(* One call of a query function is a walk of pc:                           *)
(*   idle -> begin -> scope -> exit -> decide -> (wait -> begin)* -> done  *)
(* and, for get_subnet_slot, exit -> recover_close -> recover_connect ->   *)
(* recover_init -> decide on a failed attempt.                             *)
(*                                                                         *)
(* Spec is the client running query calls one after another.  SpecEvent is *)
(* get_reward_result_event, whose retried operation runs a whole           *)
(* get_epoch_length call inside each of its attempts.  SpecEpoch is the    *)
(* epoch helpers (get_epoch_data, get_subnet_epoch_data,                   *)
(* get_overwatch_epoch_data, in_overwatch_commit_period) computing over    *)
(* the answers of their queries while the chain produces blocks.           *)
(* SpecSnapshot is the same helpers read by read, with blocks produced     *)
(* between the reads.  SpecFormat is the decoding getters, the minimum     *)
(* class filter, the event scan and one round of the subnet_node_infos     *)
(* stream (src/app/main.py) as functions of the node's answer.  SpecWrite  *)
(* is update_bootnodes.  SpecStream is the subnet_node_infos loop, and     *)
(* SpecLoop several of its handlers on one event loop sharing the client.  *)
(***************************************************************************)
EXTENDS Integers, Sequences, FiniteSets, TLC

VARIABLES
  websocket,       \* self.interface.websocket: [present, connected]
  fn,              \* the query function being called, "none" between calls
  pc,              \* position inside the call
  attempt_number,  \* tenacity's retry_state.attempt_number
  sent,            \* requests issued to the node in the current attempt
  payload,         \* what the last request of the attempt returned or raised
  exc,             \* the exception in flight inside make_query
  outcome,         \* tenacity's retry_state.outcome: how make_query ended
  result,          \* what the call handed to its caller
  waits,           \* fixed waits slept in this call
  since,           \* history: connection events since the last request
  failures,        \* history: the exceptions make_query raised, per attempt
  connOps,         \* history: connection operations done during this call
  generation,      \* history: sockets opened during this call
  usedGen,         \* history: which of them carried a request of this call
  ev,              \* the get_reward_result_event call in progress
  chain,           \* what the chain answers to the queries of a helper
  helper,          \* the helper or getter called last, "none" before any
  returned,        \* what that helper handed to its caller
  locals,          \* the local variables of that helper at its last line
  wr               \* the signing key and the update_bootnodes call in progress

vars == <<websocket, fn, pc, attempt_number, sent, payload, exc, outcome,
          result, waits, since, failures, connOps, generation, usedGen,
          ev, chain, helper, returned, locals, wr>>

(* The state of a query call, the state of an event lookup, and the state  *)
(* of the epoch helpers.                                                   *)
queryVars == <<websocket, fn, pc, attempt_number, sent, payload, exc, outcome,
               result, waits, since, failures, connOps, generation, usedGen>>

epochVars == <<chain, helper, returned, locals>>

ext == <<ev, chain, helper, returned, locals, wr>>

---------------------------------------------------------------------------
(* The functions of the model.  The standard ones share one shape          *)
(* (lines 102-113, 219-238, 395-411, 621-635); get_subnet_slot has its own.*)

StandardFns == {"get_block_number", "get_epoch_length", "get_balance", "get_subnet_info"}

SlotFn == "get_subnet_slot"

QueryFns == StandardFns \cup {SlotFn}

(* Requests one attempt sends: get_block_number asks for the block hash    *)
(* and then for the block number; the others send one request.             *)
Requests(f) == IF f = "get_block_number" THEN 2 ELSE 1

(* Exceptions, by class name.  TypeError and OSError stand for the classes *)
(* no retry declaration names.                                             *)
SRE == "SubstrateRequestException"

WSClosed == "WebSocketConnectionClosedException"

WSProtocol == "WebSocketProtocolException"

RequestErrors == {SRE, "ConnectionError", "AttributeError", WSClosed, WSProtocol, "TypeError"}

ConnectErrors == {"ConnectionError", "OSError"}

InitRuntimeErrors == {SRE, WSClosed}

(* What a request that reaches the node answers: a value, or None when the *)
(* constant, storage item or event is absent.                              *)
Answers == {"value", "None"}

(* retry=retry_if_exception_type((...)) of get_subnet_slot, line 573.      *)
SlotRetryTypes == {SRE, "ConnectionError", "AttributeError", WSClosed, WSProtocol}

(* The retry predicate: the standard decorator passes no retry= argument,  *)
(* so tenacity's default retries on every Exception; get_subnet_slot       *)
(* retries on the declared classes only.                                   *)
RetryIfAny(f, e) == TRUE

RetryIf(f, e) == IF f = SlotFn THEN e \in SlotRetryTypes ELSE TRUE

(* stop=stop_after_attempt(4).                                             *)
StopAfterAttempt == 4

StopOneLate(n) == n > StopAfterAttempt

Stop(n) == n >= StopAfterAttempt

---------------------------------------------------------------------------
(* Values handed around.                                                   *)

NoOutcome == [kind |-> "none", value |-> "none", exc |-> "none"]

Returned(v) == [kind |-> "returned", value |-> v, exc |-> "none"]

Raised(e) == [kind |-> "raised", value |-> "none", exc |-> e]

NoResult == [kind |-> "none", exc |-> "none", last_attempt |-> "none"]

ReturnValue(v) == [kind |-> v, exc |-> "none", last_attempt |-> "none"]

Raise(e) == [kind |-> "raise", exc |-> e, last_attempt |-> "none"]

(* tenacity's RetryError(last_attempt): it carries the outcome of the      *)
(* attempt that exhausted the budget.                                      *)
RetryError(o) == [kind |-> "raise", exc |-> "RetryError", last_attempt |-> o.exc]

(* What the call returns when make_query() raised r: the standard          *)
(* functions `return make_query()` and let it propagate; get_subnet_slot   *)
(* wraps the call in try/except Exception and returns None.                *)
PropagateAll(f, r) == r

Surface(f, r) == IF f = SlotFn THEN ReturnValue("None") ELSE r

(* __init__, lines 97-100, sets url and interface and no keypair; no      *)
(* update_bootnodes call has been made.                                    *)
NoWrite ==
  [pc |-> "idle", keypair |-> FALSE, call |-> [kind |-> "none"],
   attempt_number |-> 0, waits |-> 0, submitted |-> 0,
   outcome |-> [kind |-> "none"], result |-> [kind |-> "none"]]

---------------------------------------------------------------------------
(* Hypertensor.__init__: the connection is opened, no call is in progress. *)
Constructed ==
  /\ wr = NoWrite
  /\ websocket = [present |-> TRUE, connected |-> TRUE]
  /\ fn = "none"
  /\ pc = "idle"
  /\ attempt_number = 0
  /\ sent = 0
  /\ payload = "none"
  /\ exc = "none"
  /\ outcome = NoOutcome
  /\ result = NoResult
  /\ waits = 0
  /\ since = << >>
  /\ failures = << >>
  /\ connOps = {}
  /\ generation = 0
  /\ usedGen = {}

(* No event lookup in progress.  attempts, waits count the attempts and    *)
(* the sleeps of every retried operation run since the lookup was called;  *)
(* scopes, requests, outside count, within the current attempt of          *)
(* make_event_query, the entries into `with self.interface`, the requests  *)
(* sent, and those of them sent outside any scope.                         *)
EventIdle ==
  [pc |-> "idle", attempt_number |-> 0, exc |-> "none", data |-> "none",
   outcome |-> NoOutcome, result |-> NoResult, attempts |-> 0, waits |-> 0,
   scopes |-> 0, requests |-> 0, outside |-> 0]

(* No epoch helper has been called.                                        *)
NoRecord == [kind |-> "none"]

NoLocals == [kind |-> "none"]

Genesis ==
  [current_block |-> 0, epoch_length |-> 1, multiplier |-> 1,
   cutoff_percent |-> 0]

Init ==
  /\ Constructed
  /\ ev = EventIdle
  /\ chain = Genesis
  /\ helper = "none"
  /\ returned = NoRecord
  /\ locals = NoLocals

(* A caller invokes a query function; the retried operation starts its     *)
(* first attempt.                                                          *)
StartCall(f) ==
  /\ pc \in {"idle", "done"}
  /\ fn' = f
  /\ pc' = "begin"
  /\ attempt_number' = 1
  /\ sent' = 0
  /\ payload' = "none"
  /\ exc' = "none"
  /\ outcome' = NoOutcome
  /\ result' = NoResult
  /\ waits' = 0
  /\ since' = << >>
  /\ failures' = << >>
  /\ connOps' = {}
  /\ generation' = 0
  /\ usedGen' = {}
  /\ UNCHANGED websocket

Call(f) ==
  /\ StartCall(f)
  /\ UNCHANGED ext

---------------------------------------------------------------------------
(* The connection operations of SubstrateInterface the client uses.        *)

(* interface.close(), also run by the interface's __exit__ when a          *)
(* `with self.interface` block is left (the comment at line 585: "context  *)
(* manager which closes socket"): the socket object stays, disconnected.   *)
Closed(ws) == [ws EXCEPT !.connected = FALSE]

(* interface.connect_websocket(): a new connected socket.                  *)
Connected(ws) == [present |-> TRUE, connected |-> TRUE]

(* `not self.interface.websocket or not self.interface.websocket.connected`*)
NeedsConnect(ws) == ~ws.present \/ ~ws.connected

---------------------------------------------------------------------------
(* A standard query enters `with self.interface as _interface`.            *)
EnterScope ==
  /\ pc = "begin"
  /\ fn \in StandardFns
  /\ pc' = "scope"
  /\ UNCHANGED <<websocket, fn, attempt_number, sent, payload, exc, outcome,
                 result, waits, since, failures, connOps, generation, usedGen>>
  /\ UNCHANGED ext

(* get_subnet_slot's attempt starts by making sure the socket is connected *)
(* (lines 577-579; the metadata reload of lines 581-583 is commented out), *)
(* then enters the scope.  A connect that raises is caught by the          *)
(* attempt's `except Exception`.                                           *)
EnsureAlwaysConnects ==
  /\ pc = "begin"
  /\ fn = SlotFn
  /\ websocket' = Connected(websocket)
  /\ since' = Append(since, "ensure_connect")
  /\ connOps' = connOps \cup {"ensure_connect"}
  /\ generation' = generation + 1
  /\ pc' = "scope"
  /\ UNCHANGED <<fn, attempt_number, sent, payload, exc, outcome, result,
                 waits, failures, usedGen>>
  /\ UNCHANGED ext

EnsureConnected ==
  /\ pc = "begin"
  /\ fn = SlotFn
  /\ IF NeedsConnect(websocket)
       THEN \/ /\ websocket' = Connected(websocket)
               /\ since' = Append(since, "ensure_connect")
               /\ connOps' = connOps \cup {"ensure_connect"}
               /\ generation' = generation + 1
               /\ pc' = "scope"
               /\ exc' = exc
            \/ \E e \in ConnectErrors :
                 /\ exc' = e
                 /\ since' = Append(since, "ensure_connect_error")
                 /\ pc' = "recover_close"
                 /\ UNCHANGED <<websocket, connOps, generation>>
       ELSE /\ pc' = "scope"
            /\ UNCHANGED <<websocket, since, connOps, generation, exc>>
  /\ UNCHANGED <<fn, attempt_number, sent, payload, outcome, result, waits,
                 failures, usedGen>>
  /\ UNCHANGED ext

(* One request inside the scope (_interface.query, get_constant,           *)
(* rpc_request, get_block_hash, get_block_number).  It answers or raises.  *)
(* On a socket that is closed the interface either reconnects by itself    *)
(* before sending, or the send fails.  The last answer of the attempt is   *)
(* what the `with` body returns.                                           *)
Answer(a) ==
  /\ sent' = sent + 1
  /\ since' = << >>
  /\ IF a \in RequestErrors
       THEN exc' = a /\ payload' = a /\ pc' = "exit"
       ELSE IF sent + 1 < Requests(fn)
         THEN exc' = exc /\ payload' = a /\ pc' = "scope"
         ELSE exc' = exc /\ payload' = a /\ pc' = "exit"

Request ==
  /\ pc = "scope"
  /\ \/ /\ websocket.connected
        /\ \E a \in Answers \cup RequestErrors : Answer(a)
        /\ usedGen' = usedGen \cup {generation}
        /\ UNCHANGED <<websocket, connOps, generation>>
     \/ /\ ~websocket.connected
        /\ websocket' = Connected(websocket)
        /\ connOps' = connOps \cup {"auto_connect"}
        /\ generation' = generation + 1
        /\ usedGen' = usedGen \cup {generation + 1}
        /\ \E a \in Answers \cup RequestErrors : Answer(a)
     \/ /\ ~websocket.connected
        /\ \E e \in {WSClosed, "ConnectionError"} : Answer(e)
        /\ UNCHANGED <<websocket, connOps, generation, usedGen>>
  /\ UNCHANGED <<fn, attempt_number, outcome, result, waits, failures>>
  /\ UNCHANGED ext

(* The `with` block is left, on a return and on an exception alike: the    *)
(* interface's __exit__ closes the socket.  Then the attempt ends: a       *)
(* standard query catches SubstrateRequestException, prints and returns    *)
(* None, and lets any other exception out; get_subnet_slot catches every   *)
(* exception and goes to its recovery.                                     *)
ScopeExit(ws) == Closed(ws)

(* `except SubstrateRequestException as e: print(...)` of a standard       *)
(* query: the attempt then ends by returning None.                         *)
SwallowedNever(f, e) == FALSE

SwallowedAny(f, e) == f \in StandardFns

Swallowed(f, e) == f \in StandardFns /\ e = SRE

LeaveScope ==
  /\ pc = "exit"
  /\ websocket' = ScopeExit(websocket)
  /\ since' = Append(since, "exit_close")
  /\ connOps' = connOps \cup {"exit_close"}
  /\ IF exc = "none"
       THEN /\ outcome' = Returned(payload)
            /\ pc' = "decide"
            /\ UNCHANGED <<exc, failures>>
       ELSE IF fn = SlotFn
         THEN /\ pc' = "recover_close"
              /\ UNCHANGED <<exc, outcome, failures>>
         ELSE IF Swallowed(fn, exc)
           THEN /\ outcome' = Returned("None")
                /\ exc' = "none"
                /\ pc' = "decide"
                /\ UNCHANGED failures
           ELSE /\ outcome' = Raised(exc)
                /\ failures' = Append(failures, exc)
                /\ exc' = "none"
                /\ pc' = "decide"
  /\ UNCHANGED <<fn, attempt_number, sent, payload, result, waits, generation,
                 usedGen>>
  /\ UNCHANGED ext

---------------------------------------------------------------------------
(* get_subnet_slot's recovery, lines 591-599: close (an exception of close *)
(* is passed over), connect_websocket, init_runtime, then `raise` of the   *)
(* attempt's exception.  An exception raised by connect_websocket or       *)
(* init_runtime leaves the handler at once and is what make_query raises.  *)
RecoverWithoutClose ==
  /\ pc = "recover_close"
  /\ pc' = "recover_connect"
  /\ UNCHANGED <<websocket, fn, attempt_number, sent, payload, exc, outcome,
                 result, waits, since, failures, connOps, generation, usedGen>>
  /\ UNCHANGED ext

RecoverClose ==
  /\ pc = "recover_close"
  /\ \/ /\ websocket' = Closed(websocket)
        /\ since' = Append(since, "force_close")
     \/ /\ websocket' = websocket
        /\ since' = Append(since, "force_close_error")
  /\ connOps' = connOps \cup {"force_close"}
  /\ pc' = "recover_connect"
  /\ UNCHANGED <<fn, attempt_number, sent, payload, exc, outcome, result,
                 waits, failures, generation, usedGen>>
  /\ UNCHANGED ext

RecoverConnect ==
  /\ pc = "recover_connect"
  /\ \/ /\ websocket' = Connected(websocket)
        /\ since' = Append(since, "force_connect")
        /\ connOps' = connOps \cup {"force_connect"}
        /\ generation' = generation + 1
        /\ pc' = "recover_init"
        /\ UNCHANGED <<exc, outcome, failures>>
     \/ \E e \in ConnectErrors :
          /\ since' = Append(since, "force_connect_error")
          /\ outcome' = Raised(e)
          /\ failures' = Append(failures, e)
          /\ exc' = "none"
          /\ pc' = "decide"
          /\ UNCHANGED <<websocket, connOps, generation>>
  /\ UNCHANGED <<fn, attempt_number, sent, payload, result, waits, usedGen>>
  /\ UNCHANGED ext

RecoverWithoutInitRuntime ==
  /\ pc = "recover_init"
  /\ outcome' = Raised(exc)
  /\ failures' = Append(failures, exc)
  /\ exc' = "none"
  /\ pc' = "decide"
  /\ UNCHANGED <<websocket, fn, attempt_number, sent, payload, result, waits,
                 since, connOps, generation, usedGen>>
  /\ UNCHANGED ext

RecoverInitRuntime ==
  /\ pc = "recover_init"
  /\ \/ /\ since' = Append(since, "init_runtime")
        /\ outcome' = Raised(exc)
        /\ failures' = Append(failures, exc)
     \/ \E e \in InitRuntimeErrors :
          /\ since' = Append(since, "init_runtime_error")
          /\ outcome' = Raised(e)
          /\ failures' = Append(failures, e)
  /\ exc' = "none"
  /\ pc' = "decide"
  /\ UNCHANGED <<websocket, fn, attempt_number, sent, payload, result, waits,
                 connOps, generation, usedGen>>
  /\ UNCHANGED ext

---------------------------------------------------------------------------
(* tenacity after an attempt: a returned value ends the call; an exception *)
(* the retry predicate rejects is re-raised as it is; after the last       *)
(* allowed attempt RetryError is raised; otherwise the call sleeps.        *)
Decide ==
  /\ pc = "decide"
  /\ IF outcome.kind = "returned"
       THEN result' = ReturnValue(outcome.value) /\ pc' = "done"
       ELSE IF ~RetryIf(fn, outcome.exc)
         THEN result' = Surface(fn, Raise(outcome.exc)) /\ pc' = "done"
         ELSE IF Stop(attempt_number)
           THEN result' = Surface(fn, RetryError(outcome)) /\ pc' = "done"
           ELSE result' = result /\ pc' = "wait"
  /\ UNCHANGED <<websocket, fn, attempt_number, sent, payload, exc, outcome,
                 waits, since, failures, connOps, generation, usedGen>>
  /\ UNCHANGED ext

(* wait=wait_fixed(BLOCK_SECS + 1): one sleep, then the next attempt.      *)
Wait ==
  /\ pc = "wait"
  /\ waits' = waits + 1
  /\ attempt_number' = attempt_number + 1
  /\ sent' = 0
  /\ payload' = "none"
  /\ outcome' = NoOutcome
  /\ pc' = "begin"
  /\ UNCHANGED <<websocket, fn, exc, result, since, failures, connOps,
                 generation, usedGen>>
  /\ UNCHANGED ext

Next ==
  \/ \E f \in QueryFns : Call(f)
  \/ EnterScope
  \/ EnsureConnected
  \/ Request
  \/ LeaveScope
  \/ RecoverClose
  \/ RecoverConnect
  \/ RecoverInitRuntime
  \/ Decide
  \/ Wait

Spec == Init /\ [][Next]_vars

---------------------------------------------------------------------------
(* get_reward_result_event (lines 1015-1048).  Its retried operation       *)
(* make_event_query calls get_epoch_length, itself a retried query, then   *)
(* converts the answer, asks the node for the hash of block                *)
(* epoch_length * epoch, and only then enters `with self.interface` to     *)
(* fetch and scan the events of that block.  ev.pc walks                   *)
(*   idle -> begin -> epoch_length -> block_hash -> scope -> events ->     *)
(*   exit -> decide -> (wait -> begin)* -> done                            *)
(* while the nested get_epoch_length call walks pc as any standard query.  *)

callVars == <<fn, pc, attempt_number, sent, payload, exc, outcome, result,
              waits, since, failures, connOps, generation, usedGen>>

EventCall ==
  /\ ev.pc \in {"idle", "done"}
  /\ pc \in {"idle", "done"}
  /\ ev' = [EventIdle EXCEPT !.pc = "begin", !.attempt_number = 1]
  /\ UNCHANGED queryVars
  /\ UNCHANGED <<epochVars, wr>>

(* Line 1031: `epoch_length = self.get_epoch_length()`.                    *)
EventGetEpochLength ==
  /\ ev.pc = "begin"
  /\ StartCall("get_epoch_length")
  /\ ev' = [ev EXCEPT !.pc = "epoch_length"]
  /\ UNCHANGED <<epochVars, wr>>

(* get_epoch_length has ended.  What it raised leaves make_event_query     *)
(* (RetryError is no SubstrateRequestException); None makes                *)
(* `int(str(epoch_length))` of line 1032 raise ValueError; a value goes on *)
(* to line 1034.                                                           *)
EventConvert ==
  /\ ev.pc = "epoch_length"
  /\ pc = "done"
  /\ LET e == [ev EXCEPT !.attempts = @ + attempt_number,
                         !.waits = @ + waits,
                         !.scopes = @ + attempt_number,
                         !.requests = @ + attempt_number]
     IN ev' = IF result.kind = "raise"
                THEN [e EXCEPT !.outcome = Raised(result.exc), !.pc = "decide"]
                ELSE IF result.kind = "None"
                  THEN [e EXCEPT !.outcome = Raised("ValueError"),
                                 !.pc = "decide"]
                  ELSE [e EXCEPT !.pc = "block_hash"]
  /\ UNCHANGED queryVars
  /\ UNCHANGED <<epochVars, wr>>

(* A request of make_event_query reaches the node and is answered with a,  *)
(* or fails with a: on a closed socket the interface reconnects by itself  *)
(* before sending, or the send fails.                                      *)
EventSend(a) ==
  \/ /\ websocket.connected
     /\ a \in Answers \cup RequestErrors
     /\ UNCHANGED websocket
  \/ /\ ~websocket.connected
     /\ a \in Answers \cup RequestErrors
     /\ websocket' = Connected(websocket)
  \/ /\ ~websocket.connected
     /\ a \in {WSClosed, "ConnectionError"}
     /\ UNCHANGED websocket

(* How an attempt of make_event_query ends on exception e: line 1045       *)
(* catches SubstrateRequestException and the attempt returns None.         *)
EventAttemptEnds(e) == IF e = SRE THEN Returned("None") ELSE Raised(e)

(* Line 1034: `self.interface.get_block_hash(block_number=block_number)`,  *)
(* before the `with` of line 1035.                                         *)
EventGetBlockHash ==
  /\ ev.pc = "block_hash"
  /\ \E a \in Answers \cup RequestErrors :
       /\ EventSend(a)
       /\ LET e == [ev EXCEPT !.requests = @ + 1, !.outside = @ + 1]
          IN ev' = IF a \in RequestErrors
                     THEN [e EXCEPT !.outcome = EventAttemptEnds(a),
                                    !.pc = "decide"]
                     ELSE [e EXCEPT !.pc = "scope"]
  /\ UNCHANGED callVars
  /\ UNCHANGED <<epochVars, wr>>

(* Line 1035: `with self.interface as _interface`.                         *)
EventEnterScope ==
  /\ ev.pc = "scope"
  /\ ev' = [ev EXCEPT !.scopes = @ + 1, !.pc = "events"]
  /\ UNCHANGED queryVars
  /\ UNCHANGED <<epochVars, wr>>

(* Lines 1036-1044: get_events and the scan for the subnet's RewardResult. *)
(* The answer "value" is a block whose events hold one for the subnet,     *)
(* "None" a block whose events hold none.                                  *)
EventGetEvents ==
  /\ ev.pc = "events"
  /\ \E a \in Answers \cup RequestErrors :
       /\ EventSend(a)
       /\ LET e == [ev EXCEPT !.requests = @ + 1, !.pc = "exit"]
          IN ev' = IF a \in RequestErrors
                     THEN [e EXCEPT !.exc = a]
                     ELSE [e EXCEPT !.data = a]
  /\ UNCHANGED callVars
  /\ UNCHANGED <<epochVars, wr>>

(* The `with` block is left: the socket is closed, the attempt ends.       *)
EventLeaveScope ==
  /\ ev.pc = "exit"
  /\ websocket' = ScopeExit(websocket)
  /\ ev' = [ev EXCEPT !.outcome = IF ev.exc = "none"
                                    THEN Returned(ev.data)
                                    ELSE EventAttemptEnds(ev.exc),
                      !.exc = "none",
                      !.pc = "decide"]
  /\ UNCHANGED callVars
  /\ UNCHANGED <<epochVars, wr>>

(* tenacity around make_event_query (line 1028): the standard decorator.   *)
EventDecide ==
  /\ ev.pc = "decide"
  /\ ev' = IF ev.outcome.kind = "returned"
             THEN [ev EXCEPT !.result = ReturnValue(ev.outcome.value),
                             !.pc = "done"]
             ELSE IF Stop(ev.attempt_number)
               THEN [ev EXCEPT !.result = RetryError(ev.outcome),
                               !.pc = "done"]
               ELSE [ev EXCEPT !.pc = "wait"]
  /\ UNCHANGED queryVars
  /\ UNCHANGED <<epochVars, wr>>

EventWait ==
  /\ ev.pc = "wait"
  /\ ev' = [ev EXCEPT !.waits = @ + 1,
                      !.attempt_number = @ + 1,
                      !.outcome = NoOutcome,
                      !.data = "none",
                      !.scopes = 0,
                      !.requests = 0,
                      !.outside = 0,
                      !.pc = "begin"]
  /\ UNCHANGED queryVars
  /\ UNCHANGED <<epochVars, wr>>

NextEvent ==
  \/ EventCall
  \/ EventGetEpochLength
  \/ EnterScope
  \/ Request
  \/ LeaveScope
  \/ Decide
  \/ Wait
  \/ EventConvert
  \/ EventGetBlockHash
  \/ EventEnterScope
  \/ EventGetEvents
  \/ EventLeaveScope
  \/ EventDecide
  \/ EventWait

SpecEvent == Init /\ [][NextEvent]_vars

---------------------------------------------------------------------------
(* The epoch helpers (lines 1053-1149) and the records they build (lines   *)
(* 24-78).  A helper reads the chain through the query functions and then  *)
(* only computes; the model gives each helper the answers of its queries   *)
(* and computes what the helper computes, line by line.                    *)

(* The sizes of the explored chain.                                        *)
MaxBlock == 8

MaxEpochLength == 3

MaxSlot == 4

MaxMultiplier == 2

(* The chain stores the commit cutoff as an integer out of 10^18 (line     *)
(* 1118); the model counts it out of PercentFactor.                        *)
PercentFactor == 4

Blocks == (0..MaxBlock) \cup {175}

EpochLengths == (1..MaxEpochLength) \cup {100}

Slots == (0..MaxSlot) \cup {50}

Multipliers == 1..MaxMultiplier

CutoffPercents == 0..PercentFactor

(* substrate.config.BLOCK_SECS, imported at line 21.                       *)
BLOCK_SECS == 6

(* Python's numbers as the helpers use them.  A float is kept as the exact *)
(* fraction num/den (rounding of the floating-point format is left out);   *)
(* // and % are floor division and its remainder.                          *)
Ratio(n, d) == [num |-> n, den |-> d]

FloorDiv(a, b) == a \div b

ModOneBased(a, b) == ((a + b - 1) % b) + 1

Mod(a, b) == a % b

(* a / b of two ints; float(x / 1e18) with PercentFactor for 1e18.         *)
TrueDiv(a, b) == Ratio(a, b)

(* int * float, int + float, float - int, int > float, int < float.        *)
Times(n, r) == Ratio(n * r.num, r.den)

Plus(n, r) == Ratio(n * r.den + r.num, r.den)

Minus(r, n) == Ratio(r.num - n * r.den, r.den)

Greater(n, r) == n * r.den > r.num

LessOrEqual(n, r) == n * r.den <= r.num

Less(n, r) == n * r.den < r.num

(* What a query function hands to a helper: the chain's value, None (the   *)
(* query caught SubstrateRequestException), or a raised RetryError.        *)
Value(v) == [kind |-> "value", value |-> v]

AnswersOf(v) ==
  {Value(v), [kind |-> "None", value |-> 0], [kind |-> "raise", value |-> 0]}

Error(e) == [kind |-> "error", exc |-> e]

(* A dataclass constructor called with keyword arguments: a required field *)
(* left out, or a keyword that is no field, is a TypeError.                *)
Dataclass(name, fields, kwargs) ==
  IF DOMAIN kwargs = fields
    THEN [kind |-> name] @@ kwargs
    ELSE Error("TypeError")

EpochDataFields ==
  {"block", "epoch", "block_per_epoch", "seconds_per_epoch",
   "percent_complete", "blocks_elapsed", "blocks_remaining",
   "seconds_elapsed", "seconds_remaining"}

OverwatchEpochDataFields ==
  EpochDataFields \cup {"overwatch_epoch", "seconds_remaining_until_reveal"}

(* EpochData.zero, lines 36-48.                                            *)
EpochData_zero_exhausted(current_block, epoch_length) ==
  Dataclass("EpochData", EpochDataFields,
    [block |-> current_block,
     epoch |-> 0,
     block_per_epoch |-> epoch_length,
     seconds_per_epoch |-> epoch_length * BLOCK_SECS,
     percent_complete |-> Ratio(0, 1),
     blocks_elapsed |-> 0,
     blocks_remaining |-> 0,
     seconds_elapsed |-> 0,
     seconds_remaining |-> 0])

EpochData_zero_unscaled(current_block, epoch_length) ==
  Dataclass("EpochData", EpochDataFields,
    [block |-> current_block,
     epoch |-> 0,
     block_per_epoch |-> epoch_length,
     seconds_per_epoch |-> epoch_length * BLOCK_SECS,
     percent_complete |-> Ratio(0, 1),
     blocks_elapsed |-> 0,
     blocks_remaining |-> epoch_length,
     seconds_elapsed |-> 0,
     seconds_remaining |-> epoch_length])

EpochData_zero(current_block, epoch_length) ==
  Dataclass("EpochData", EpochDataFields,
    [block |-> current_block,
     epoch |-> 0,
     block_per_epoch |-> epoch_length,
     seconds_per_epoch |-> epoch_length * BLOCK_SECS,
     percent_complete |-> Ratio(0, 1),
     blocks_elapsed |-> 0,
     blocks_remaining |-> epoch_length,
     seconds_elapsed |-> 0,
     seconds_remaining |-> epoch_length * BLOCK_SECS])

(* What a helper leaves: the value it returns (or the exception it ends    *)
(* in) and its local variables.                                            *)
Ended(r, l) == [returned |-> r, locals |-> l]

(* get_epoch_data, lines 1053-1075.  A RetryError of a query leaves the    *)
(* helper; None makes int(str(...)) raise ValueError.                      *)
get_epoch_data(block_number, length) ==
  IF block_number.kind = "raise" \/ length.kind = "raise"
    THEN Ended(Error("RetryError"), NoLocals)
  ELSE IF block_number.kind = "None" \/ length.kind = "None"
    THEN Ended(Error("ValueError"), NoLocals)
  ELSE
    LET current_block == block_number.value
        epoch_length == length.value
        epoch == FloorDiv(current_block, epoch_length)
        blocks_elapsed == Mod(current_block, epoch_length)
        percent_complete == TrueDiv(blocks_elapsed, epoch_length)
        blocks_remaining == epoch_length - blocks_elapsed
        seconds_elapsed == blocks_elapsed * BLOCK_SECS
        seconds_remaining == blocks_remaining * BLOCK_SECS
    IN Ended(
         Dataclass("EpochData", EpochDataFields,
           [block |-> current_block,
            epoch |-> epoch,
            block_per_epoch |-> epoch_length,
            seconds_per_epoch |-> epoch_length * BLOCK_SECS,
            percent_complete |-> percent_complete,
            blocks_elapsed |-> blocks_elapsed,
            blocks_remaining |-> blocks_remaining,
            seconds_elapsed |-> seconds_elapsed,
            seconds_remaining |-> seconds_remaining]),
         [kind |-> "locals", current_block |-> current_block,
          epoch_length |-> epoch_length])

(* Line 1084: the blocks since the subnet's slot.                          *)
blocks_since_genesis(current_block, slot) == current_block

blocks_since_slot(current_block, slot) == current_block - slot

(* get_subnet_epoch_data, lines 1077-1102.                                 *)
get_subnet_epoch_data(block_number, length, slot) ==
  IF block_number.kind = "raise" \/ length.kind = "raise"
    THEN Ended(Error("RetryError"), NoLocals)
  ELSE IF block_number.kind = "None" \/ length.kind = "None"
    THEN Ended(Error("ValueError"), NoLocals)
  ELSE
    LET current_block == block_number.value
        epoch_length == length.value
        blocks_since_start == blocks_since_slot(current_block, slot)
        epoch == FloorDiv(blocks_since_start, epoch_length)
        blocks_elapsed == Mod(blocks_since_start, epoch_length)
        percent_complete == TrueDiv(blocks_elapsed, epoch_length)
        blocks_remaining == epoch_length - blocks_elapsed
        seconds_elapsed == blocks_elapsed * BLOCK_SECS
        seconds_remaining == blocks_remaining * BLOCK_SECS
        l == [kind |-> "locals", current_block |-> current_block,
              epoch_length |-> epoch_length, slot |-> slot]
    IN IF current_block < slot
         THEN Ended(EpochData_zero(current_block, epoch_length),
                    l @@ [path |-> "zero"])
         ELSE Ended(
                Dataclass("EpochData", EpochDataFields,
                  [block |-> current_block,
                   epoch |-> epoch,
                   block_per_epoch |-> epoch_length,
                   seconds_per_epoch |-> epoch_length * BLOCK_SECS,
                   percent_complete |-> percent_complete,
                   blocks_elapsed |-> blocks_elapsed,
                   blocks_remaining |-> blocks_remaining,
                   seconds_elapsed |-> seconds_elapsed,
                   seconds_remaining |-> seconds_remaining]),
                l @@ [path |-> "computed"])

(* Lines 1122-1125: the gap to the cutoff, 0 once the block is past it.    *)
remaining_unfloored(current_block, epoch_cutoff_block) ==
  Minus(epoch_cutoff_block, current_block)

remaining_from_genesis(current_block, epoch_cutoff_block) ==
  IF Greater(current_block, epoch_cutoff_block)
    THEN Ratio(0, 1)
    ELSE epoch_cutoff_block

seconds_remaining_until_reveal(current_block, epoch_cutoff_block) ==
  IF Greater(current_block, epoch_cutoff_block)
    THEN Ratio(0, 1)
    ELSE Minus(epoch_cutoff_block, current_block)

(* get_overwatch_epoch_data, lines 1104-1138.  None for the multiplier or  *)
(* the cutoff percent makes the arithmetic of lines 1117, 1118 raise       *)
(* TypeError.  The constructor call of lines 1127-1138 passes no           *)
(* overwatch_epoch.                                                        *)
get_overwatch_epoch_data(block_number, length, mult, cutoff) ==
  IF block_number.kind = "raise" \/ length.kind = "raise"
    THEN Ended(Error("RetryError"), NoLocals)
  ELSE IF block_number.kind = "None" \/ length.kind = "None"
    THEN Ended(Error("ValueError"), NoLocals)
  ELSE IF mult.kind = "raise"
    THEN Ended(Error("RetryError"), NoLocals)
  ELSE IF mult.kind = "None"
    THEN Ended(Error("TypeError"), NoLocals)
  ELSE IF cutoff.kind = "raise"
    THEN Ended(Error("RetryError"), NoLocals)
  ELSE IF cutoff.kind = "None"
    THEN Ended(Error("TypeError"), NoLocals)
  ELSE
    LET current_block == block_number.value
        epoch_length == length.value
        epoch == FloorDiv(current_block, epoch_length)
        blocks_elapsed == Mod(current_block, epoch_length)
        percent_complete == TrueDiv(blocks_elapsed, epoch_length)
        blocks_remaining == epoch_length - blocks_elapsed
        seconds_elapsed == blocks_elapsed * BLOCK_SECS
        seconds_remaining == blocks_remaining * BLOCK_SECS
        multiplier == mult.value
        overwatch_epoch_length == epoch_length * multiplier
        cutoff_percentage == TrueDiv(cutoff.value, PercentFactor)
        block_increase_cutoff == Times(overwatch_epoch_length, cutoff_percentage)
        epoch_cutoff_block ==
          Plus(overwatch_epoch_length * epoch, block_increase_cutoff)
        until_reveal ==
          seconds_remaining_until_reveal(current_block, epoch_cutoff_block)
    IN Ended(
         Dataclass("OverwatchEpochData", OverwatchEpochDataFields,
           [block |-> current_block,
            epoch |-> epoch,
            block_per_epoch |-> epoch_length,
            seconds_per_epoch |-> epoch_length * BLOCK_SECS,
            percent_complete |-> percent_complete,
            blocks_elapsed |-> blocks_elapsed,
            blocks_remaining |-> blocks_remaining,
            seconds_elapsed |-> seconds_elapsed,
            seconds_remaining |-> seconds_remaining,
            seconds_remaining_until_reveal |-> until_reveal]),
         [kind |-> "locals", current_block |-> current_block,
          epoch_length |-> epoch_length, epoch |-> epoch,
          multiplier |-> multiplier,
          overwatch_epoch_length |-> overwatch_epoch_length,
          cutoff_percentage |-> cutoff_percentage,
          epoch_cutoff_block |-> epoch_cutoff_block,
          seconds_remaining_until_reveal |-> until_reveal])

(* in_overwatch_commit_period, lines 1140-1149.  An exception of           *)
(* get_epoch_data leaves it.                                               *)
in_overwatch_commit_period(block_number, length, mult, cutoff) ==
  LET epoch_data == get_epoch_data(block_number, length).returned
  IN IF epoch_data.kind = "error"
       THEN Ended(epoch_data, NoLocals)
     ELSE IF mult.kind = "raise"
       THEN Ended(Error("RetryError"), NoLocals)
     ELSE IF mult.kind = "None"
       THEN Ended(Error("TypeError"), NoLocals)
     ELSE IF cutoff.kind = "raise"
       THEN Ended(Error("RetryError"), NoLocals)
     ELSE IF cutoff.kind = "None"
       THEN Ended(Error("TypeError"), NoLocals)
     ELSE
       LET epoch_length == epoch_data.block_per_epoch
           multiplier == mult.value
           overwatch_epoch_length == epoch_length * multiplier
           current_epoch == epoch_data.epoch
           cutoff_percentage == TrueDiv(cutoff.value, PercentFactor)
           block_increase_cutoff ==
             Times(overwatch_epoch_length, cutoff_percentage)
           epoch_cutoff_block ==
             Plus(overwatch_epoch_length * current_epoch, block_increase_cutoff)
       IN Ended([kind |-> "bool",
                 value |-> Less(epoch_data.block, epoch_cutoff_block)],
                [kind |-> "locals", current_block |-> epoch_data.block,
                 epoch_length |-> epoch_length, epoch |-> current_epoch,
                 multiplier |-> multiplier,
                 overwatch_epoch_length |-> overwatch_epoch_length,
                 cutoff_percentage |-> cutoff_percentage,
                 epoch_cutoff_block |-> epoch_cutoff_block])

(* The chain the helpers read: any block, epoch length, multiplier and     *)
(* cutoff percent of the explored sizes.                                   *)
InitEpoch ==
  /\ Constructed
  /\ ev = EventIdle
  /\ chain \in [current_block : Blocks, epoch_length : EpochLengths,
                multiplier : Multipliers, cutoff_percent : CutoffPercents]
  /\ helper = "none"
  /\ returned = NoRecord
  /\ locals = NoLocals

(* The chain produces a block.                                             *)
NextBlock ==
  /\ chain.current_block + 1 \in Blocks
  /\ chain' = [chain EXCEPT !.current_block = @ + 1]
  /\ UNCHANGED <<helper, returned, locals, ev, wr>>
  /\ UNCHANGED queryVars

HelperEnds(name, end) ==
  /\ helper' = name
  /\ returned' = end.returned
  /\ locals' = end.locals
  /\ UNCHANGED <<chain, ev, wr>>
  /\ UNCHANGED queryVars

CallGetEpochData ==
  \E b \in AnswersOf(chain.current_block), l \in AnswersOf(chain.epoch_length) :
    HelperEnds("get_epoch_data", get_epoch_data(b, l))

CallGetSubnetEpochData ==
  \E b \in AnswersOf(chain.current_block), l \in AnswersOf(chain.epoch_length),
     slot \in Slots :
    HelperEnds("get_subnet_epoch_data", get_subnet_epoch_data(b, l, slot))

CallGetOverwatchEpochData ==
  \E b \in AnswersOf(chain.current_block), l \in AnswersOf(chain.epoch_length),
     m \in AnswersOf(chain.multiplier), c \in AnswersOf(chain.cutoff_percent) :
    HelperEnds("get_overwatch_epoch_data",
               get_overwatch_epoch_data(b, l, m, c))

CallInOverwatchCommitPeriod ==
  \E b \in AnswersOf(chain.current_block), l \in AnswersOf(chain.epoch_length),
     m \in AnswersOf(chain.multiplier), c \in AnswersOf(chain.cutoff_percent) :
    HelperEnds("in_overwatch_commit_period",
               in_overwatch_commit_period(b, l, m, c))

NextEpoch ==
  \/ NextBlock
  \/ CallGetEpochData
  \/ CallGetSubnetEpochData
  \/ CallGetOverwatchEpochData
  \/ CallInOverwatchCommitPeriod

SpecEpoch == InitEpoch /\ [][NextEpoch]_vars

---------------------------------------------------------------------------
(* The reads of a helper, one query at a time.  Each query is a call of    *)
(* its own to the node (get_block_number at lines 1054, 1078, 1105 and,    *)
(* through get_epoch_data, 1141; get_epoch_length next; then, in the       *)
(* overwatch functions, get_overwatch_epoch_multiplier and                 *)
(* get_overwatch_commit_cutoff_percent), and each reads the chain as it is *)
(* when the query is answered.  The chain goes on producing blocks         *)
(* meanwhile; the cutoff percent (like the multiplier) is a storage value  *)
(* a block can change, the epoch length is a constant of the runtime.      *)

EpochHelpers ==
  {"get_epoch_data", "get_subnet_epoch_data", "get_overwatch_epoch_data",
   "in_overwatch_commit_period"}

(* The chain values a helper queries, in the order of its lines.           *)
Queries(h) ==
  IF h \in {"get_epoch_data", "get_subnet_epoch_data"}
    THEN <<"current_block", "epoch_length">>
    ELSE <<"current_block", "epoch_length", "multiplier", "cutoff_percent">>

InitSnapshot ==
  /\ Constructed
  /\ ev = EventIdle
  /\ chain \in [current_block : {0}, epoch_length : EpochLengths,
                multiplier : Multipliers, cutoff_percent : CutoffPercents]
  /\ helper = "none"
  /\ returned = NoRecord
  /\ locals = NoLocals

(* The blocks produced while helpers are followed read by read.            *)
MaxSnapshotBlock == 2

(* The chain produces a block; the block may change the cutoff percent in  *)
(* storage.                                                                *)
BlockProduced ==
  /\ chain.current_block < MaxSnapshotBlock
  /\ \E c \in CutoffPercents :
       chain' = [chain EXCEPT !.current_block = @ + 1, !.cutoff_percent = c]
  /\ UNCHANGED <<helper, returned, locals, ev, wr>>
  /\ UNCHANGED queryVars

(* A helper is called: nothing read yet.                                   *)
HelperCalled(h) ==
  /\ locals.kind # "reading"
  /\ helper' = h
  /\ returned' = NoRecord
  /\ \E slot \in (IF h = "get_subnet_epoch_data" THEN Slots ELSE {0}) :
       locals' = [kind |-> "reading", slot |-> slot, reads |-> << >>]
  /\ UNCHANGED <<chain, ev, wr>>
  /\ UNCHANGED queryVars

(* The helper's next query is answered from the chain as it is now.        *)
HelperReads ==
  /\ locals.kind = "reading"
  /\ Len(locals.reads) < Len(Queries(helper))
  /\ LET q == Queries(helper)[Len(locals.reads) + 1]
     IN locals' = [locals EXCEPT !.reads =
                     Append(@, [query |-> q, value |-> chain[q], at |-> chain])]
  /\ UNCHANGED <<chain, helper, returned, ev, wr>>
  /\ UNCHANGED queryVars

(* All queries answered: the helper computes its result from what it read. *)
HelperComputes ==
  /\ locals.kind = "reading"
  /\ Len(locals.reads) = Len(Queries(helper))
  /\ LET read(i) == Value(locals.reads[i].value)
         end == IF helper = "get_epoch_data"
                  THEN get_epoch_data(read(1), read(2))
                ELSE IF helper = "get_subnet_epoch_data"
                  THEN get_subnet_epoch_data(read(1), read(2), locals.slot)
                ELSE IF helper = "get_overwatch_epoch_data"
                  THEN get_overwatch_epoch_data(read(1), read(2), read(3),
                                                read(4))
                  ELSE in_overwatch_commit_period(read(1), read(2), read(3),
                                                  read(4))
     IN /\ returned' = end.returned
        /\ locals' = [locals EXCEPT !.kind = "read"]
  /\ UNCHANGED <<chain, helper, ev, wr>>
  /\ UNCHANGED queryVars

NextSnapshot ==
  \/ BlockProduced
  \/ \E h \in EpochHelpers : HelperCalled(h)
  \/ HelperReads
  \/ HelperComputes

SpecSnapshot == InitSnapshot /\ [][NextSnapshot]_vars

---------------------------------------------------------------------------
(* The decoding ("formatted") getters (lines 1154-1403), the event scan of *)
(* get_reward_result_event (lines 1036-1044) and the subnet-node-info      *)
(* stream of the web layer (src/app/main.py lines 102-140), each computing *)
(* over what the node answered; `chain` holds that answer.                 *)

(* The sizes of the explored answers.                                      *)
MaxNodes == 2

MaxEpoch == 2

MaxEvents == 3

MaxSubnetId == 2

MaxPercent == 2

(* class SubnetNodeClass(Enum), lines 84-88, and the lookup by name of     *)
(* lines 94-95.                                                            *)
SubnetNodeClass ==
  [Registered |-> 1, Idle |-> 2, Included |-> 3, Validator |-> 4]

ClassNames == DOMAIN SubnetNodeClass

subnet_node_class_to_enum(name) == SubnetNodeClass[name]

(* A decoded SubnetNodeInfo, as far as the getters and the stream read it. *)
SubnetNodeInfo(node_class, start_epoch, score, average_attestation) ==
  [peer_id |-> "peer", coldkey |-> "cold", hotkey |-> "hot",
   identity |-> [name |-> "alice", x |-> ""],
   classification |-> [node_class |-> node_class, start_epoch |-> start_epoch],
   reputation |-> [score |-> score,
                   average_attestation |-> average_attestation]]

Epochs == 0..MaxEpoch

SubnetIds == 1..MaxSubnetId

(* All sequences over S of length at most n.                               *)
SeqsUpTo(S, n) == UNION {[1..k -> S] : k \in 0..n}

ClassifiedNodes ==
  {SubnetNodeInfo(c, e, 1, 1) : c \in ClassNames, e \in Epochs}

RatedNodes ==
  {SubnetNodeInfo("Validator", 0, sc, a) :
     sc \in 0..PercentFactor, a \in 0..PercentFactor}

(* The events of a block, as far as the scan reads them.                   *)
Event(module_id, event_id, attributes) ==
  [module_id |-> module_id, event_id |-> event_id, attributes |-> attributes]

Events ==
  {Event("Network", "RewardResult", <<sn, pct>>) :
     sn \in SubnetIds, pct \in 1..MaxPercent}
  \cup {Event("Network", "SubnetActivated", <<1, 1>>),
        Event("Balances", "RewardResult", <<1, 1>>)}

(* What the node's answer to the getter's request is: a byte vector that   *)
(* decodes (to nodes, or to some other structure), one that does not, None *)
(* (the query caught SubstrateRequestException), or a raised RetryError;   *)
(* and the events of a block.                                              *)
Defects == {"truncated", "unknown_discriminant"}

NodeAnswers ==
  {[kind |-> "nodes", nodes |-> ns] :
     ns \in SeqsUpTo(ClassifiedNodes, MaxNodes) \cup SeqsUpTo(RatedNodes, MaxNodes)}

OtherAnswers ==
  {[kind |-> "well_formed"], [kind |-> "None"], [kind |-> "raise"]}
  \cup {[kind |-> "malformed", defect |-> d] : d \in Defects}

EventAnswers ==
  {[kind |-> "events", events |-> log] : log \in SeqsUpTo(Events, MaxEvents)}

NoneValue == [kind |-> "None"]

List(v) == [kind |-> "list", value |-> v]

(* X.from_vec_u8(result["result"]) and X.list_from_vec_u8(result["result"])*)
(* of substrate.chain_data: None has no ["result"]; bytes that do not      *)
(* decode raise.                                                           *)
Decode(answer) ==
  IF answer.kind = "None" THEN Error("TypeError")
  ELSE IF answer.kind = "malformed"
    THEN Error(IF answer.defect = "truncated" THEN "RemainingScaleBytes"
                                              ELSE "ValueError")
  ELSE IF answer.kind = "nodes" THEN List(answer.nodes)
  ELSE [kind |-> "decoded"]

(* `except Exception: return None` (lines 1171-1172 and alike): whatever   *)
(* the try block raised, the getter returns `absent`.                      *)
ExceptRequestOnly(body, absent) ==
  IF body.kind = "error" /\ body.exc = SRE THEN absent ELSE body

ExceptException(body, absent) ==
  IF body.kind = "error" THEN absent ELSE body

(* The getters of lines 1154-1362: the query, then the decoding.           *)
DecodingGetters ==
  {"get_elected_validator_node_formatted", "get_formatted_subnet_info",
   "get_subnet_nodes_info_formatted", "get_bootnodes_formatted",
   "get_coldkey_stakes_formatted", "get_delegate_stakes_formatted"}

Formatted(answer) ==
  ExceptException(
    IF answer.kind = "raise" THEN Error("RetryError") ELSE Decode(answer),
    NoneValue)

(* get_consensus_data_formatted, lines 1364-1383: None stays None, the     *)
(* rest goes through ConsensusData.fix_decoded_values.                     *)
get_consensus_data_formatted(answer) ==
  ExceptException(
    IF answer.kind = "raise" THEN Error("RetryError")
    ELSE IF answer.kind = "None" THEN NoneValue
    ELSE Decode(answer),
    NoneValue)

(* The condition of the list comprehension, line 1400.                     *)
MinClassConditionStrict(node, subnet_epoch, min_class) ==
  /\ subnet_node_class_to_enum(node.classification.node_class)
       > subnet_node_class_to_enum(min_class)
  /\ node.classification.start_epoch <= subnet_epoch

MinClassCondition(node, subnet_epoch, min_class) ==
  /\ subnet_node_class_to_enum(node.classification.node_class)
       >= subnet_node_class_to_enum(min_class)
  /\ node.classification.start_epoch <= subnet_epoch

(* `[node for node in subnet_nodes if ...]`, lines 1398-1401.              *)
RECURSIVE Comprehension(_, _, _)
Comprehension(subnet_nodes, subnet_epoch, min_class) ==
  IF subnet_nodes = << >>
    THEN << >>
    ELSE LET node == Head(subnet_nodes)
             rest == Comprehension(Tail(subnet_nodes), subnet_epoch, min_class)
         IN IF MinClassCondition(node, subnet_epoch, min_class)
              THEN <<node>> \o rest
              ELSE rest

(* get_min_class_subnet_nodes_formatted, lines 1385-1403.                  *)
get_min_class_subnet_nodes_formatted(answer, subnet_epoch, min_class) ==
  ExceptException(
    IF answer.kind = "raise" THEN Error("RetryError")
    ELSE LET subnet_nodes == Decode(answer)
         IN IF subnet_nodes.kind = "error"
              THEN subnet_nodes
              ELSE IF subnet_nodes.kind # "list"
                THEN Error("TypeError")
                ELSE List(Comprehension(subnet_nodes.value, subnet_epoch,
                                        min_class)),
    List(<< >>))

(* The test of lines 1039-1041 on one event.                               *)
IsRewardResult(event, target_subnet_id) ==
  /\ event.module_id = "Network"
  /\ event.event_id = "RewardResult"

IsRewardResultOf(event, target_subnet_id) ==
  /\ event.module_id = "Network"
  /\ event.event_id = "RewardResult"
  /\ event.attributes[1] = target_subnet_id

(* The loop of lines 1036-1044: data stays None until an event passes the  *)
(* test; then data is (subnet_id, attestation_percentage) and the loop     *)
(* breaks.                                                                 *)
RECURSIVE ScanEvents(_, _)
ScanEvents(events, target_subnet_id) ==
  IF events = << >>
    THEN NoneValue
    ELSE LET event == Head(events)
         IN IF IsRewardResultOf(event, target_subnet_id)
              THEN [kind |-> "tuple",
                    value |-> <<event.attributes[1], event.attributes[2]>>]
              ELSE ScanEvents(Tail(events), target_subnet_id)

(* What the stream publishes for a number: the number, or the text "None". *)
Number(r) == [kind |-> "number", value |-> r]

NoData == [kind |-> "text", value |-> "None"]

IsZero(r) == r.num = 0

(* Lines 110-138 of main.py for one node.                                  *)
PublishedNode(node) ==
  LET identity == node.identity
      name == IF identity.name = "" THEN "None" ELSE identity.name
      x == IF identity.x = "" THEN "None" ELSE identity.x
      reputation == node.reputation
      rep_score == TrueDiv(reputation.score, PercentFactor)
      average_attestation ==
        TrueDiv(reputation.average_attestation, PercentFactor)
  IN [peer_id |-> node.peer_id,
      coldkey |-> node.coldkey,
      hotkey |-> node.hotkey,
      name |-> name,
      x |-> x,
      rep_score |-> Number(rep_score),
      average_attestation |-> IF IsZero(average_attestation)
                                THEN NoData
                                ELSE Number(average_attestation)]

(* One round of get_subnet_node_infos, lines 106-139 of main.py: iterating *)
(* over None raises TypeError.                                             *)
get_subnet_node_infos(answer) ==
  LET subnet_nodes == Formatted(answer)
  IN IF subnet_nodes.kind # "list"
       THEN Error("TypeError")
       ELSE [kind |-> "sent",
             data |-> [i \in 1..Len(subnet_nodes.value) |->
                         PublishedNode(subnet_nodes.value[i])]]

InitFormat ==
  /\ Constructed
  /\ ev = EventIdle
  /\ chain \in NodeAnswers \cup OtherAnswers \cup EventAnswers
  /\ helper = "none"
  /\ returned = NoRecord
  /\ locals = NoLocals

CallFormattedGetter(g) ==
  /\ chain.kind # "events"
  /\ HelperEnds(g, Ended(Formatted(chain), [kind |-> "locals"]))

CallGetConsensusDataFormatted ==
  /\ chain.kind \in {"well_formed", "malformed", "None", "raise"}
  /\ HelperEnds("get_consensus_data_formatted",
                Ended(get_consensus_data_formatted(chain), [kind |-> "locals"]))

CallGetMinClassSubnetNodesFormatted ==
  /\ chain.kind # "events"
  /\ \E subnet_epoch \in Epochs, min_class \in ClassNames :
       HelperEnds("get_min_class_subnet_nodes_formatted",
                  Ended(get_min_class_subnet_nodes_formatted(
                          chain, subnet_epoch, min_class),
                        [kind |-> "locals", subnet_epoch |-> subnet_epoch,
                         min_class |-> min_class]))

ScanRewardResult ==
  /\ chain.kind = "events"
  /\ \E target_subnet_id \in SubnetIds :
       HelperEnds("get_reward_result_event",
                  Ended(ScanEvents(chain.events, target_subnet_id),
                        [kind |-> "locals",
                         target_subnet_id |-> target_subnet_id]))

StreamSubnetNodeInfos ==
  /\ chain.kind # "events"
  /\ HelperEnds("get_subnet_node_infos",
                Ended(get_subnet_node_infos(chain), [kind |-> "locals"]))

NextFormat ==
  \/ \E g \in DecodingGetters : CallFormattedGetter(g)
  \/ CallGetConsensusDataFormatted
  \/ CallGetMinClassSubnetNodesFormatted
  \/ ScanRewardResult
  \/ StreamSubnetNodeInfos

SpecFormat == InitFormat /\ [][NextFormat]_vars

---------------------------------------------------------------------------
(* The write path: update_bootnodes, lines 1405-1441.                      *)

MaxBootnode == 2

MaxBootnodeList == 2

Bootnodes == 1..MaxBootnode

Range(seq) == {seq[i] : i \in DOMAIN seq}

(* sorted(set(add)), lines 1424-1425.                                      *)
SortedSet(seq) ==
  LET S == Range(seq)
  IN CHOOSE s \in [1..Cardinality(S) -> S] :
       \A i, j \in 1..Cardinality(S) : i < j => s[i] < s[j]

(* compose_call and create_signed_extrinsic ask the node for the chain     *)
(* head and the account nonce; submit_extrinsic sends the extrinsic and    *)
(* waits for its inclusion.                                                *)
ComposeErrors == {SRE, "ConnectionError"}

SubmitErrors == {SRE, "ConnectionError", WSClosed}

(* The caller gives the client a signing key (`self.keypair`, read at line *)
(* 1430, is assigned nowhere in the class).                                *)
AssignKeypair ==
  /\ wr.pc \in {"idle", "done"}
  /\ ~wr.keypair
  /\ wr' = [wr EXCEPT !.keypair = TRUE]
  /\ UNCHANGED queryVars
  /\ UNCHANGED <<ev, epochVars>>

(* `self.keypair` at line 1430.                                            *)
keypair_default(w) == [kind |-> "keypair"]

self_keypair(w) ==
  IF w.keypair THEN [kind |-> "keypair"] ELSE Error("AttributeError")

(* Lines 1419-1430 and the call of the retried operation, line 1441: an    *)
(* exception raised before the retried operation leaves update_bootnodes.  *)
UpdateBootnodes(subnet_id, add, remove) ==
  /\ wr.pc \in {"idle", "done"}
  /\ LET call == [kind |-> "call", subnet_id |-> subnet_id,
                  add |-> SortedSet(add), remove |-> SortedSet(remove)]
         begun == [wr EXCEPT !.call = call, !.attempt_number = 0, !.waits = 0,
                             !.submitted = 0, !.outcome = [kind |-> "none"],
                             !.result = [kind |-> "none"]]
     IN \/ \E e \in ComposeErrors :
             wr' = [begun EXCEPT !.pc = "done", !.result = Error(e)]
        \/ IF self_keypair(wr).kind = "error"
             THEN wr' = [begun EXCEPT !.pc = "done",
                                      !.result = self_keypair(wr)]
             ELSE \/ \E e \in ComposeErrors :
                       wr' = [begun EXCEPT !.pc = "done", !.result = Error(e)]
                  \/ wr' = [begun EXCEPT !.pc = "submit",
                                         !.attempt_number = 1]
  /\ UNCHANGED queryVars
  /\ UNCHANGED <<ev, epochVars>>

(* One attempt of submit_extrinsic, lines 1433-1439: the extrinsic reaches *)
(* the node or not, and the receipt arrives or an exception is raised;     *)
(* SubstrateRequestException is caught and the attempt returns None.  The  *)
(* scope is left in every case.                                            *)
SubmitExtrinsic ==
  /\ wr.pc = "submit"
  /\ \/ wr' = [wr EXCEPT !.submitted = @ + 1,
                         !.outcome = [kind |-> "returned",
                                      value |-> [kind |-> "receipt"]],
                         !.pc = "decide"]
     \/ \E e \in SubmitErrors, reached \in BOOLEAN :
          wr' = [wr EXCEPT !.submitted = IF reached THEN @ + 1 ELSE @,
                           !.outcome = IF e = SRE
                                         THEN [kind |-> "returned",
                                               value |-> NoneValue]
                                         ELSE [kind |-> "raised", exc |-> e],
                           !.pc = "decide"]
  /\ websocket' = ScopeExit(websocket)
  /\ UNCHANGED <<fn, pc, attempt_number, sent, payload, exc, outcome, result,
                 waits, since, failures, connOps, generation, usedGen>>
  /\ UNCHANGED <<ev, epochVars>>

(* tenacity after the attempt: return its value, stop after attempt 4 with *)
(* RetryError, or wait.                                                    *)
SubmitDecide ==
  /\ wr.pc = "decide"
  /\ wr' = IF wr.outcome.kind = "returned"
             THEN [wr EXCEPT !.pc = "done", !.result = wr.outcome.value]
             ELSE IF Stop(wr.attempt_number)
               THEN [wr EXCEPT !.pc = "done", !.result = Error("RetryError")]
               ELSE [wr EXCEPT !.pc = "wait"]
  /\ UNCHANGED queryVars
  /\ UNCHANGED <<ev, epochVars>>

(* wait_fixed(BLOCK_SECS+1), then the next attempt.                        *)
SubmitWait ==
  /\ wr.pc = "wait"
  /\ wr' = [wr EXCEPT !.pc = "submit", !.waits = @ + 1,
                      !.attempt_number = @ + 1]
  /\ UNCHANGED queryVars
  /\ UNCHANGED <<ev, epochVars>>

NextWrite ==
  \/ AssignKeypair
  \/ \E subnet_id \in SubnetIds :
       \E add, remove \in SeqsUpTo(Bootnodes, MaxBootnodeList) :
         UpdateBootnodes(subnet_id, add, remove)
  \/ SubmitExtrinsic
  \/ SubmitDecide
  \/ SubmitWait

SpecWrite == Init /\ [][NextWrite]_vars

---------------------------------------------------------------------------
(* The subnet_node_infos stream as a loop, src/app/main.py lines 102-140:  *)
(* accept, then forever fetch, build the snapshot, send it, sleep 30       *)
(* seconds.  `chain` is what the node answered to the fetch of the cycle,  *)
(* `locals` the position of the handler, `returned` the last message sent. *)

MaxCycles == 2

StreamAnswers ==
  {[kind |-> "nodes", nodes |-> ns] : ns \in SeqsUpTo(RatedNodes, 1)}
  \cup (OtherAnswers \ {[kind |-> "well_formed"]})

StreamIdle == [kind |-> "stream", pc |-> "closed", cycle |-> 0, sent |-> 0,
               data |-> NoRecord]

InitStream ==
  /\ Constructed
  /\ ev = EventIdle
  /\ chain = NoRecord
  /\ helper = "none"
  /\ returned = NoRecord
  /\ locals = StreamIdle

(* await websocket.accept(), line 104.                                     *)
StreamAccept ==
  /\ locals.pc = "closed"
  /\ helper' = "get_subnet_node_infos"
  /\ locals' = [locals EXCEPT !.pc = "fetch", !.cycle = 1]
  /\ UNCHANGED <<chain, returned, ev, wr>>
  /\ UNCHANGED queryVars

(* Lines 106-138: the fetch and the loop over its result.  An exception    *)
(* leaves the `while True` loop and the handler.                           *)
StreamFetch ==
  /\ locals.pc = "fetch"
  /\ \E answer \in StreamAnswers :
       /\ chain' = answer
       /\ LET round == get_subnet_node_infos(answer)
          IN locals' = IF round.kind = "error"
                         THEN [locals EXCEPT !.pc = "raised", !.data = round]
                         ELSE [locals EXCEPT !.pc = "send", !.data = round]
  /\ UNCHANGED <<helper, returned, ev, wr>>
  /\ UNCHANGED queryVars

(* await websocket.send_json(data), line 139.                              *)
StreamSend ==
  /\ locals.pc = "send"
  /\ returned' = locals.data
  /\ locals' = [locals EXCEPT !.pc = "sleep", !.sent = @ + 1, !.data = NoRecord]
  /\ UNCHANGED <<chain, helper, ev, wr>>
  /\ UNCHANGED queryVars

(* await asyncio.sleep(30), line 140, and the next cycle.                  *)
StreamSleep ==
  /\ locals.pc = "sleep"
  /\ locals.cycle < MaxCycles
  /\ locals' = [locals EXCEPT !.pc = "fetch", !.cycle = @ + 1]
  /\ UNCHANGED <<chain, helper, returned, ev, wr>>
  /\ UNCHANGED queryVars

NextStream ==
  \/ StreamAccept
  \/ StreamFetch
  \/ StreamSend
  \/ StreamSleep

SpecStream == InitStream /\ [][NextStream]_vars

---------------------------------------------------------------------------
(* Several subnet_node_infos handlers on one event loop, sharing the one   *)
(* client `hypertensor` (src/app/main.py line 32) and its websocket.  A    *)
(* handler is a coroutine: it gives the loop back only at an `await`       *)
(* (accept, send_json, sleep; lines 104, 139, 140).  The fetch of line 106 *)
(* is a plain call: get_subnet_nodes_info (lines 674-692) with its         *)
(* attempts, its time.sleep between attempts and its scope exits runs      *)
(* inside the handler's step.  `locals` holds the handlers: `running` the  *)
(* set of handlers executing, `task` the position of each.                 *)

MaxHandlers == 2

Handlers == 1..MaxHandlers

AwaitPcs == {"accept", "send", "sleep"}

CallPcs == {"begin", "scope", "exit", "decide", "wait"}

NewTask == [pc |-> "accept", attempt_number |-> 0, outcome |-> NoOutcome]

InitLoop ==
  /\ Constructed
  /\ ev = EventIdle
  /\ chain = NoRecord
  /\ helper = "none"
  /\ returned = NoRecord
  /\ locals = [kind |-> "loop", running |-> {},
               task |-> [t \in Handlers |-> NewTask]]

(* The event loop runs one coroutine at a time: it resumes a suspended     *)
(* handler only when no handler is executing.                              *)
CanResumeAnytime(l, t) == TRUE

CanResume(l, t) == l.running = {}

TaskStep(t, new) ==
  /\ locals' = [locals EXCEPT !.task[t] = new]
  /\ UNCHANGED <<chain, helper, returned, ev, wr>>

QueryFrame ==
  UNCHANGED <<fn, pc, attempt_number, sent, payload, exc, outcome, result,
              waits, since, failures, connOps, generation, usedGen>>

(* The await of the handler completes and the loop resumes it: after       *)
(* accept and after sleep it runs line 106 and enters the query call;      *)
(* after send_json it reaches the sleep at once.                           *)
HandlerResumes(t) ==
  /\ locals.task[t].pc \in AwaitPcs
  /\ CanResume(locals, t)
  /\ IF locals.task[t].pc = "send"
       THEN locals' = [locals EXCEPT !.task[t].pc = "sleep"]
       ELSE locals' = [locals EXCEPT !.running = @ \cup {t},
                                     !.task[t] = [pc |-> "begin",
                                                  attempt_number |-> 1,
                                                  outcome |-> NoOutcome]]
  /\ UNCHANGED <<chain, helper, returned, ev, wr>>
  /\ UNCHANGED websocket
  /\ QueryFrame

(* `with self.interface as _interface`, line 681.                          *)
HandlerEntersScope(t) ==
  /\ t \in locals.running
  /\ locals.task[t].pc = "begin"
  /\ TaskStep(t, [locals.task[t] EXCEPT !.pc = "scope"])
  /\ UNCHANGED websocket
  /\ QueryFrame

(* rpc_request, lines 682-687, on the shared socket.                       *)
HandlerRequests(t) ==
  /\ t \in locals.running
  /\ locals.task[t].pc = "scope"
  /\ \/ /\ websocket.connected
        /\ \E a \in Answers \cup RequestErrors :
             TaskStep(t, [locals.task[t] EXCEPT
                            !.pc = "exit",
                            !.outcome = IF a \in RequestErrors
                                          THEN Raised(a) ELSE Returned(a)])
        /\ UNCHANGED websocket
     \/ /\ ~websocket.connected
        /\ websocket' = Connected(websocket)
        /\ \E a \in Answers \cup RequestErrors :
             TaskStep(t, [locals.task[t] EXCEPT
                            !.pc = "exit",
                            !.outcome = IF a \in RequestErrors
                                          THEN Raised(a) ELSE Returned(a)])
     \/ /\ ~websocket.connected
        /\ \E e \in {WSClosed, "ConnectionError"} :
             TaskStep(t, [locals.task[t] EXCEPT !.pc = "exit",
                                                !.outcome = Raised(e)])
        /\ UNCHANGED websocket
  /\ QueryFrame

(* The scope is left and the socket closed; SubstrateRequestException is   *)
(* caught and the attempt returns None, lines 689-690.                     *)
HandlerLeavesScope(t) ==
  /\ t \in locals.running
  /\ locals.task[t].pc = "exit"
  /\ websocket' = ScopeExit(websocket)
  /\ TaskStep(t, [locals.task[t] EXCEPT
                    !.pc = "decide",
                    !.outcome = IF @.kind = "raised" /\ @.exc = SRE
                                  THEN Returned("None") ELSE @])
  /\ QueryFrame

(* tenacity after the attempt, and what the handler does with the result   *)
(* of the fetch: a list is turned into the snapshot and the handler        *)
(* reaches `await websocket.send_json`; None (also after RetryError, lines *)
(* 1258-1259) makes the loop of line 109 raise and the handler end.        *)
HandlerDecides(t) ==
  /\ t \in locals.running
  /\ locals.task[t].pc = "decide"
  /\ LET task == locals.task[t]
         ends == task.outcome.kind = "returned" \/ Stop(task.attempt_number)
         fetched == task.outcome.kind = "returned"
                      /\ task.outcome.value = "value"
     IN locals' =
          IF ends
            THEN [locals EXCEPT !.running = @ \ {t},
                                !.task[t].pc = IF fetched THEN "send"
                                                          ELSE "raised"]
            ELSE [locals EXCEPT !.task[t].pc = "wait"]
  /\ UNCHANGED <<chain, helper, returned, ev, wr>>
  /\ UNCHANGED websocket
  /\ QueryFrame

(* wait_fixed(BLOCK_SECS+1): tenacity's time.sleep inside the call.        *)
HandlerWaits(t) ==
  /\ t \in locals.running
  /\ locals.task[t].pc = "wait"
  /\ TaskStep(t, [locals.task[t] EXCEPT !.pc = "begin",
                                        !.attempt_number = @ + 1,
                                        !.outcome = NoOutcome])
  /\ UNCHANGED websocket
  /\ QueryFrame

(* A client connects again after its handler ended: the loop starts a new  *)
(* handler, which runs up to its `await websocket.accept()`.               *)
HandlerReconnects(t) ==
  /\ locals.task[t].pc = "raised"
  /\ CanResume(locals, t)
  /\ TaskStep(t, NewTask)
  /\ UNCHANGED websocket
  /\ QueryFrame

NextLoop ==
  \E t \in Handlers :
    \/ HandlerResumes(t)
    \/ HandlerEntersScope(t)
    \/ HandlerRequests(t)
    \/ HandlerLeavesScope(t)
    \/ HandlerDecides(t)
    \/ HandlerWaits(t)
    \/ HandlerReconnects(t)

SpecLoop == InitLoop /\ [][NextLoop]_vars

---------------------------------------------------------------------------
(* Vocabulary of the properties.                                           *)

(* The failures the design calls transport failures: the socket closed,    *)
(* a websocket protocol error, a connection error of the network.          *)
TransportErrors == {WSClosed, WSProtocol, "ConnectionError"}

(* The classes a function's retry decorator names.                         *)
DeclaredRetryable(f) == IF f = SlotFn THEN SlotRetryTypes ELSE {}

(* The last n events of a log (the whole log when it is shorter).          *)
LastEvents(log, n) ==
  IF Len(log) <= n THEN log ELSE SubSeq(log, Len(log) - n + 1, Len(log))

ForceCloses == {"force_close", "force_close_error"}

(* A get_subnet_slot attempt after the first is about to send its query.   *)
SlotRetryAboutToQuery ==
  pc = "scope" /\ fn = SlotFn /\ attempt_number > 1 /\ sent = 0

---------------------------------------------------------------------------
(* C1: a standard query whose retried operation raises k times and then    *)
(* returns gives that return value after exactly k+1 attempts when k < 4;  *)
(* when it raises 4 times the call ends after exactly 4 attempts with      *)
(* RetryError carrying the failure of the 4th attempt.  An attempt in      *)
(* which SubstrateRequestException is caught is a return of None.          *)
C1_RetryBudget ==
  (pc = "done" /\ fn \in StandardFns) =>
    /\ outcome.kind = "returned" =>
         /\ Len(failures) < 4
         /\ attempt_number = Len(failures) + 1
         /\ result = ReturnValue(outcome.value)
    /\ outcome.kind = "raised" =>
         /\ Len(failures) = 4
         /\ attempt_number = 4
         /\ result.kind = "raise"
         /\ result.exc = "RetryError"
         /\ result.last_attempt = failures[4]

C1_Witness ==
  /\ pc = "done"
  /\ fn = "get_epoch_length"
  /\ Len(failures) = 4
  /\ failures[1] # failures[4]
  /\ result.exc = "RetryError"

(* C2: another attempt is made only after a transport failure or a failure *)
(* of a class the function declares retryable.                             *)
C2_OnlyTransportRetried ==
  pc = "wait" => outcome.exc \in TransportErrors \cup DeclaredRetryable(fn)

(* C3, as claimed: when a get_subnet_slot attempt after the first sends    *)
(* its query, the connection events before it end with close, connect,     *)
(* metadata reload, all three done.                                        *)
C3_ReconnectBeforeRetry ==
  SlotRetryAboutToQuery =>
    \E c \in ForceCloses : LastEvents(since, 3) = <<c, "force_connect", "init_runtime">>

(* C3, amended: every get_subnet_slot attempt after the first is preceded  *)
(* by the recovery step: close (its error passed over), then a connect,    *)
(* then, when the connect succeeded, a metadata reload, in that order.  A  *)
(* connect or reload that raises ends the step there: after a failed       *)
(* reload the query goes out with no completed reload, after a failed      *)
(* connect the attempt's own ensure-connected step connects and the query  *)
(* goes out with no reload at all.                                         *)
C3_RecoveryBeforeRetry ==
  SlotRetryAboutToQuery =>
    \E c \in ForceCloses :
      LastEvents(since, 3) \in { <<c, "force_connect", "init_runtime">>,
                           <<c, "force_connect", "init_runtime_error">>,
                           <<c, "force_connect_error", "ensure_connect">> }

C3_Witness ==
  /\ SlotRetryAboutToQuery
  /\ LastEvents(since, 3) = <<"force_close_error", "force_connect", "init_runtime">>

(* C4: get_subnet_slot never raises: it returns what the query returned,   *)
(* or None when the attempts ended with an exception.                      *)
C4_SlotNeverRaises ==
  (pc = "done" /\ fn = SlotFn) =>
    /\ result.kind # "raise"
    /\ outcome.kind = "returned" => result = ReturnValue(outcome.value)
    /\ outcome.kind = "raised" => result = ReturnValue("None")

C4_Witness ==
  /\ pc = "done"
  /\ fn = SlotFn
  /\ attempt_number = StopAfterAttempt
  /\ outcome.kind = "raised"
  /\ outcome.exc \in TransportErrors

(* C5: no read-path function raises to its caller: a finished call has     *)
(* returned a value or an absent value.                                    *)
C5_ReadPathNeverRaises ==
  pc = "done" => result.kind \in {"value", "None"}

C7_OnlyForcedReconnectCloses ==
  /\ fn \in StandardFns => connOps = {}
  /\ (fn = SlotFn /\ failures = << >> /\ exc = "none") => connOps = {}

(* C8: all requests of one call, whatever the attempt, go out on one and   *)
(* the same socket: none is sent on a socket opened after another socket   *)
(* carried a request of the call.                                          *)
C8_NoSwapMidCall ==
  Cardinality(usedGen) <= 1

(* C9: leaving the connection scope leaves the socket as it was: open and  *)
(* connected.                                                              *)
C9_ScopeExitReleasesOnly ==
  [][pc = "exit" => websocket' = websocket]_vars

---------------------------------------------------------------------------
(* The sleeps and the nested get_epoch_length attempts of the event lookup *)
(* in progress, those of a nested call still running included.             *)
EventFixedWaits ==
  ev.waits + (IF ev.pc = "epoch_length" THEN waits ELSE 0)

EventNestedAttempts ==
  ev.attempts + (IF ev.pc = "epoch_length" THEN attempt_number ELSE 0)

(* C11: one call of get_reward_result_event makes at most 4 attempts       *)
(* against the node and sleeps at most 3 fixed waits, as every other       *)
(* query call does.                                                        *)
C11_EventCallWithinBudget ==
  /\ EventFixedWaits <= StopAfterAttempt - 1
  /\ EventNestedAttempts <= StopAfterAttempt
  /\ ev.attempt_number <= StopAfterAttempt

(* C12: within one attempt a query function enters the connection scope at *)
(* most once and sends exactly one request, and sends it inside the scope. *)
C12_OneRequestInsideScope ==
  /\ ev.scopes <= 1
  /\ ev.outside = 0
  /\ ev.requests <= 1
  /\ (ev.pc = "exit" /\ ev.exc = "none") => ev.requests = 1
  /\ (pc = "exit" /\ exc = "none") => sent = 1

---------------------------------------------------------------------------
(* Vocabulary of the epoch properties.                                     *)

(* Two fractions are the same number; one is no larger than the other.     *)
SameNumber(r, s) == r.num * s.den = s.num * r.den

NoLarger(r, s) == r.num * s.den <= s.num * r.den

(* The helper called last was `name` and all its queries answered, so that *)
(* it ran to its last line.                                                *)
Computed(name) == helper = name /\ locals.kind = "locals"

(* C13: for current_block >= 0 and epoch_length > 0 the EpochData of       *)
(* get_epoch_data has blocks_elapsed + blocks_remaining = epoch_length,    *)
(* 0 <= blocks_elapsed < epoch_length, and percent_complete equal to       *)
(* blocks_elapsed / epoch_length, at least 0 and below 1.                  *)
C13_EpochDataInvariant ==
  (Computed("get_epoch_data") /\ returned.kind = "EpochData") =>
    /\ returned.blocks_elapsed + returned.blocks_remaining = locals.epoch_length
    /\ 0 <= returned.blocks_elapsed
    /\ returned.blocks_elapsed < locals.epoch_length
    /\ returned.percent_complete.den > 0
    /\ 0 <= returned.percent_complete.num
    /\ returned.percent_complete.num < returned.percent_complete.den
    /\ SameNumber(returned.percent_complete,
                  Ratio(returned.blocks_elapsed, locals.epoch_length))

C13_Witness ==
  /\ Computed("get_epoch_data")
  /\ returned.kind = "EpochData"
  /\ returned.epoch > 0
  /\ returned.blocks_elapsed > 0

(* C14: for current_block >= slot, get_subnet_epoch_data(slot) at          *)
(* current_block equals get_epoch_data at current_block - slot in every    *)
(* field but block, which is current_block; epoch_length 100, slot 50,     *)
(* current_block 175 give epoch 1, blocks_elapsed 25, blocks_remaining 75, *)
(* percent_complete 0.25.                                                  *)
C14_SubnetEpochIsShiftedEpoch ==
  (/\ Computed("get_subnet_epoch_data")
   /\ returned.kind = "EpochData"
   /\ locals.current_block >= locals.slot) =>
    LET plain == get_epoch_data(Value(locals.current_block - locals.slot),
                                Value(locals.epoch_length)).returned
    IN /\ plain.kind = "EpochData"
       /\ \A f \in EpochDataFields \ {"block"} : returned[f] = plain[f]
       /\ returned.block = locals.current_block
       /\ (/\ locals.epoch_length = 100
           /\ locals.slot = 50
           /\ locals.current_block = 175) =>
            /\ returned.epoch = 1
            /\ returned.blocks_elapsed = 25
            /\ returned.blocks_remaining = 75
            /\ SameNumber(returned.percent_complete, Ratio(1, 4))

C14_Witness ==
  /\ Computed("get_subnet_epoch_data")
  /\ returned.kind = "EpochData"
  /\ locals.epoch_length = 100
  /\ locals.slot = 50
  /\ locals.current_block = 175
  /\ returned.epoch = 1

(* C15: for current_block < slot get_subnet_epoch_data returns the zero    *)
(* state (epoch 0, blocks_elapsed 0, percent_complete 0, blocks_remaining  *)
(* epoch_length, block current_block); at current_block = slot it returns  *)
(* the computed record, which has epoch 0 and blocks_elapsed 0 as well.    *)
C15_BeforeSlotZeroState ==
  (Computed("get_subnet_epoch_data") /\ returned.kind = "EpochData") =>
    /\ locals.current_block < locals.slot =>
         /\ locals.path = "zero"
         /\ returned.epoch = 0
         /\ returned.blocks_elapsed = 0
         /\ returned.percent_complete.num = 0
         /\ returned.blocks_remaining = locals.epoch_length
         /\ returned.block = locals.current_block
    /\ locals.current_block = locals.slot =>
         /\ locals.path = "computed"
         /\ returned.epoch = 0
         /\ returned.blocks_elapsed = 0

C15_Witness ==
  /\ Computed("get_subnet_epoch_data")
  /\ returned.kind = "EpochData"
  /\ 0 < locals.current_block
  /\ locals.current_block < locals.slot
  /\ locals.epoch_length > 1

(* C16: in get_overwatch_epoch_data, seconds_remaining_until_reveal is 0   *)
(* whenever current_block is greater than the computed cutoff block.       *)
C16_PastCutoffNothingRemains ==
  (/\ Computed("get_overwatch_epoch_data")
   /\ Greater(locals.current_block, locals.epoch_cutoff_block)) =>
    locals.seconds_remaining_until_reveal.num = 0

C16_Witness ==
  /\ Computed("get_overwatch_epoch_data")
  /\ Greater(locals.current_block, locals.epoch_cutoff_block)
  /\ locals.epoch_cutoff_block.num > 0

(* C17, as stated: in get_overwatch_epoch_data, whenever current_block is  *)
(* not greater than the cutoff block seconds_remaining_until_reveal is     *)
(* strictly positive, and a computation at a later block never gives a     *)
(* larger value than one at an earlier block.                              *)
C17_RevealPositiveAndDecreasing ==
  [][(helper' = "get_overwatch_epoch_data" /\ locals'.kind = "locals") =>
       /\ ~Greater(locals'.current_block, locals'.epoch_cutoff_block) =>
            locals'.seconds_remaining_until_reveal.num > 0
       /\ Computed("get_overwatch_epoch_data") =>
            NoLarger(locals'.seconds_remaining_until_reveal,
                     locals.seconds_remaining_until_reveal)]_vars

(* C17, amended: the value is never negative, it is positive exactly when  *)
(* current_block is below the cutoff block (0 at the cutoff block itself), *)
(* and among computations of one epoch (equal current_block //             *)
(* epoch_length) a later block never gives a larger value.                 *)
C17_RevealDecreasingWithinEpoch ==
  [][(helper' = "get_overwatch_epoch_data" /\ locals'.kind = "locals") =>
       /\ locals'.seconds_remaining_until_reveal.num >= 0
       /\ Less(locals'.current_block, locals'.epoch_cutoff_block) <=>
            locals'.seconds_remaining_until_reveal.num > 0
       /\ (Computed("get_overwatch_epoch_data")
             /\ locals.epoch = locals'.epoch) =>
            NoLarger(locals'.seconds_remaining_until_reveal,
                     locals.seconds_remaining_until_reveal)]_vars

C17_Witness ==
  /\ Computed("get_overwatch_epoch_data")
  /\ Mod(locals.current_block, locals.epoch_length) > 0
  /\ Less(locals.current_block, locals.epoch_cutoff_block)
  /\ locals.seconds_remaining_until_reveal.num > 0

(* C18: while current_block has not passed the cutoff block,               *)
(* seconds_remaining_until_reveal is the block gap cutoff_block -          *)
(* current_block multiplied by BLOCK_SECS.                                 *)
C18_RevealInSeconds ==
  (/\ Computed("get_overwatch_epoch_data")
   /\ ~Greater(locals.current_block, locals.epoch_cutoff_block)) =>
    SameNumber(locals.seconds_remaining_until_reveal,
               Times(BLOCK_SECS,
                     Minus(locals.epoch_cutoff_block, locals.current_block)))

(* C19: a get_overwatch_epoch_data call whose queries all succeed returns  *)
(* an OverwatchEpochData with every EpochData field, overwatch_epoch and   *)
(* seconds_remaining_until_reveal, and does not end in an error.           *)
C19_OverwatchReturnsRecord ==
  Computed("get_overwatch_epoch_data") =>
    /\ returned.kind = "OverwatchEpochData"
    /\ OverwatchEpochDataFields \subseteq DOMAIN returned

(* C20: the cutoff block of get_overwatch_epoch_data and of                *)
(* in_overwatch_commit_period lies in the overwatch cycle, of length       *)
(* epoch_length * multiplier, that contains current_block:                 *)
(* cycle_start <= cutoff_block <= cycle_start + epoch_length * multiplier. *)
C20_CutoffInsideCycle ==
  (\/ Computed("get_overwatch_epoch_data")
   \/ Computed("in_overwatch_commit_period")) =>
    LET cycle == locals.epoch_length * locals.multiplier
        cycle_start == FloorDiv(locals.current_block, cycle) * cycle
    IN /\ ~Greater(cycle_start, locals.epoch_cutoff_block)
       /\ ~Less(cycle_start + cycle, locals.epoch_cutoff_block)

---------------------------------------------------------------------------
(* C21: every result of get_epoch_data, get_subnet_epoch_data,             *)
(* get_overwatch_epoch_data and in_overwatch_commit_period is computed     *)
(* from one snapshot of the chain: all the values that feed it were read   *)
(* at the same chain state.                                                *)
C21_OneSnapshot ==
  locals.kind = "read" =>
    \A i, j \in 1..Len(locals.reads) : locals.reads[i].at = locals.reads[j].at

---------------------------------------------------------------------------
(* The getters, the event scan and the stream.                             *)

Ordinal(node) == SubnetNodeClass[node.classification.node_class]

(* C22: get_min_class_subnet_nodes_formatted(subnet_id, subnet_epoch = E,  *)
(* min_class = M) returns exactly the decoded nodes whose class ordinal is *)
(* at least M's and whose start_epoch is at most E, in their order: none   *)
(* of them is left out and no other node is included.                      *)
C22_MinClassFilterExact ==
  (Computed("get_min_class_subnet_nodes_formatted") /\ chain.kind = "nodes") =>
    /\ returned.kind = "list"
    /\ returned.value =
         SelectSeq(chain.nodes,
                   LAMBDA n : /\ Ordinal(n) >= SubnetNodeClass[locals.min_class]
                              /\ n.classification.start_epoch
                                   <= locals.subnet_epoch)

C22_Witness ==
  /\ Computed("get_min_class_subnet_nodes_formatted")
  /\ chain.kind = "nodes"
  /\ Len(chain.nodes) = 2
  /\ locals.min_class = "Included"
  /\ Len(returned.value) = 1
  /\ returned.value[1].classification.node_class = "Included"
  /\ \E i \in 1..2 :
       /\ Ordinal(chain.nodes[i]) >= 3
       /\ chain.nodes[i].classification.start_epoch > locals.subnet_epoch


RewardResults(log) ==
  {i \in 1..Len(log) : /\ log[i].module_id = "Network"
                       /\ log[i].event_id = "RewardResult"}

RewardResultsOf(log, subnet) ==
  {i \in RewardResults(log) : log[i].attributes[1] = subnet}

First(S) == CHOOSE i \in S : \A j \in S : i <= j

AttributesOf(event) ==
  [kind |-> "tuple", value |-> <<event.attributes[1], event.attributes[2]>>]

(* C23, as stated: the scan of the block's event log returns the first     *)
(* event whose module is Network and whose event id is RewardResult, or    *)
(* an absent result when the block has no such event.                      *)
C23_FirstRewardResult ==
  Computed("get_reward_result_event") =>
    IF RewardResults(chain.events) = {}
      THEN returned = NoneValue
      ELSE returned = AttributesOf(chain.events[First(RewardResults(chain.events))])

(* C23, amended: the scan returns the (subnet_id, attestation_percentage)  *)
(* pair of the first Network/RewardResult event whose subnet_id equals     *)
(* target_subnet_id, passing over RewardResult events of other subnets,    *)
(* and an absent result when the block has no such event of that subnet.   *)
C23_FirstRewardResultOfTarget ==
  Computed("get_reward_result_event") =>
    LET mine == RewardResultsOf(chain.events, locals.target_subnet_id)
    IN IF mine = {}
         THEN returned = NoneValue
         ELSE /\ returned = AttributesOf(chain.events[First(mine)])
              /\ returned.value[1] = locals.target_subnet_id

C23_Witness ==
  /\ Computed("get_reward_result_event")
  /\ Len(chain.events) = 3
  /\ RewardResults(chain.events) = {1, 2, 3}
  /\ RewardResultsOf(chain.events, locals.target_subnet_id) = {2, 3}
  /\ chain.events[2].attributes[2] # chain.events[3].attributes[2]
  /\ returned = AttributesOf(chain.events[2])


AllDecodingGetters ==
  DecodingGetters \cup {"get_consensus_data_formatted",
                        "get_min_class_subnet_nodes_formatted"}

(* C24: when decoding the payload fails (truncated bytes, unknown          *)
(* discriminant), every decoding getter returns an absent result (None;    *)
(* the empty list for the minimum-class filter) and does not raise.        *)
C24_DecodeFailureIsAbsent ==
  (helper \in AllDecodingGetters /\ locals.kind = "locals"
     /\ chain.kind = "malformed") =>
    /\ returned.kind # "error"
    /\ returned = IF helper = "get_min_class_subnet_nodes_formatted"
                    THEN List(<< >>)
                    ELSE NoneValue

C24_Witness ==
  /\ Computed("get_consensus_data_formatted")
  /\ chain.kind = "malformed"
  /\ chain.defect = "unknown_discriminant"
  /\ returned = NoneValue


(* The published field is the raw value over the scale, and "no data" for  *)
(* a raw value of zero.                                                    *)
PublishesRatio(field, raw) ==
  IF raw = 0
    THEN field.kind = "text" /\ field.value = "None"
    ELSE field.kind = "number" /\ SameNumber(field.value, Ratio(raw, PercentFactor))

(* C25: for every node published by the subnet-node-info stream, the       *)
(* reputation score and the average attestation are the raw chain value    *)
(* divided by the scale, and a raw value of exactly zero is published as   *)
(* the "no data" sentinel and never as numeric zero.                       *)
C25_ZeroRatioIsNoData ==
  (Computed("get_subnet_node_infos") /\ returned.kind = "sent") =>
    \A i \in 1..Len(returned.data) :
      /\ PublishesRatio(returned.data[i].rep_score,
                        chain.nodes[i].reputation.score)
      /\ PublishesRatio(returned.data[i].average_attestation,
                        chain.nodes[i].reputation.average_attestation)


---------------------------------------------------------------------------
(* The write path.                                                         *)

(* C26: update_bootnodes on a client that has no signing key fails at      *)
(* first use and is not retried: the retried submit operation is never     *)
(* entered, no extrinsic is submitted, no retry wait occurs, and the error *)
(* reaches the caller.                                                     *)
C26_NoKeypairFailsAtFirstUse ==
  ~wr.keypair =>
    /\ wr.pc \in {"idle", "done"}
    /\ wr.pc = "done" =>
         /\ wr.result.kind = "error"
         /\ wr.submitted = 0
         /\ wr.waits = 0
         /\ wr.attempt_number = 0

C26_Witness ==
  /\ ~wr.keypair
  /\ wr.pc = "done"
  /\ wr.call.add = <<1, 2>>
  /\ wr.result = Error("AttributeError")
  /\ wr.submitted = 0


---------------------------------------------------------------------------
(* The retried queries, continued.                                         *)

(* C27: in a standard query, an attempt that fails with                    *)
(* SubstrateRequestException ends the whole call at once: the attempt      *)
(* returns None, the call returns None after it, with no wait and no       *)
(* further attempt following it.                                           *)
C27_RequestExceptionEndsCall ==
  (fn \in StandardFns /\ payload = SRE) =>
    /\ pc \in {"exit", "decide", "done"}
    /\ pc # "exit" => outcome = Returned("None")
    /\ pc = "done" =>
         /\ result = ReturnValue("None")
         /\ waits = attempt_number - 1
         /\ Len(failures) = attempt_number - 1

C27_Witness ==
  /\ fn = "get_subnet_info"
  /\ payload = SRE
  /\ pc = "done"
  /\ attempt_number = 2
  /\ result = ReturnValue("None")


(* A get_subnet_slot attempt has just ended with an exception.             *)
SlotAttemptFailed ==
  fn = SlotFn /\ pc = "decide" /\ outcome.kind = "raised"

(* How a failing attempt ends before its recovery: the scope is left, or   *)
(* the ensure-connected step raised.                                       *)
AttemptEnds == {"exit_close", "ensure_connect_error"}

Reloads == {"init_runtime", "init_runtime_error"}

(* C28, as stated: in get_subnet_slot every failed attempt, the final one  *)
(* included, is followed by one close/connect/metadata-reload sequence, so *)
(* f failed attempts perform f such sequences, and a failed close never    *)
(* prevents the connect and the reload that follow it.                     *)
C28_ReconnectAfterEveryFailure ==
  SlotAttemptFailed =>
    /\ Len(failures) = attempt_number
    /\ \E c \in ForceCloses, r \in Reloads :
         LastEvents(since, 3) = <<c, "force_connect", r>>

(* C28, amended: every failed attempt of get_subnet_slot, the final one    *)
(* included, is followed by exactly one recovery step, so f failed         *)
(* attempts perform f recovery steps.  The step closes the connection (a   *)
(* failed close is passed over and never prevents the connect), then       *)
(* connects, then reloads the metadata when the connect succeeded; a       *)
(* connect that raises ends the step with no metadata reload.              *)
C28_RecoveryAfterEveryFailure ==
  SlotAttemptFailed =>
    /\ Len(failures) = attempt_number
    /\ \E a \in AttemptEnds, c \in ForceCloses :
         \/ \E r \in Reloads :
              LastEvents(since, 4) = <<a, c, "force_connect", r>>
         \/ LastEvents(since, 3) = <<a, c, "force_connect_error">>

C28_Witness ==
  /\ SlotAttemptFailed
  /\ attempt_number = 4
  /\ LastEvents(since, 4) =
       <<"exit_close", "force_close_error", "force_connect", "init_runtime">>


(* A get_subnet_slot attempt has ended with an exception and tenacity has  *)
(* it, or has acted on it.                                                 *)
SlotAttemptRaised ==
  fn = SlotFn /\ pc \in {"decide", "wait", "done"} /\ outcome.kind = "raised"

Undeclared(e) == e \notin SlotRetryTypes

(* C29, as stated: get_subnet_slot makes another attempt only when the     *)
(* attempt, recovery included, ends with an exception of a declared type;  *)
(* when the attempt's query or the reconnect of its recovery step raises   *)
(* an exception of another type, the call ends immediately with None and   *)
(* has made fewer than 4 attempts.                                         *)
C29_UndeclaredEndsEarly ==
  SlotAttemptRaised =>
    /\ pc = "wait" => outcome.exc \in SlotRetryTypes
    /\ ((payload \in RequestErrors /\ Undeclared(payload))
          \/ Undeclared(outcome.exc)) =>
         /\ pc # "wait"
         /\ pc = "done" =>
              /\ result = ReturnValue("None")
              /\ attempt_number < StopAfterAttempt

(* C29, amended: the exception a get_subnet_slot attempt ends with is the  *)
(* one its recovery step raised when the connect or the reload raised      *)
(* there, and otherwise the one the attempt itself raised.  Another        *)
(* attempt is made only when that exception is of a declared type and      *)
(* fewer than 4 attempts were made; when it is of any other type the call  *)
(* ends immediately with None, with no wait and no further attempt, after  *)
(* at most 4 attempts.                                                     *)
C29_FinalExceptionDecides ==
  SlotAttemptRaised =>
    /\ (LastEvents(since, 1) = <<"init_runtime">> /\ payload \in RequestErrors)
         => outcome.exc = payload
    /\ pc = "wait" =>
         /\ outcome.exc \in SlotRetryTypes
         /\ attempt_number < StopAfterAttempt
    /\ Undeclared(outcome.exc) =>
         /\ pc # "wait"
         /\ pc = "done" =>
              /\ result = ReturnValue("None")
              /\ attempt_number <= StopAfterAttempt
              /\ waits = attempt_number - 1
              /\ Len(failures) = attempt_number

C29_Witness ==
  /\ SlotAttemptRaised
  /\ pc = "wait"
  /\ payload = "TypeError"
  /\ outcome.exc = SRE
  /\ LastEvents(since, 1) = <<"init_runtime_error">>


---------------------------------------------------------------------------
(* The epoch helpers, continued.                                           *)

(* What the other overwatch helper computes from the same four values.     *)
OverwatchLocalsFor(l) ==
  get_overwatch_epoch_data(Value(l.current_block), Value(chain.epoch_length),
                           Value(chain.multiplier),
                           Value(chain.cutoff_percent)).locals

CommitPeriodFor(l) ==
  in_overwatch_commit_period(Value(l.current_block), Value(chain.epoch_length),
                             Value(chain.multiplier),
                             Value(chain.cutoff_percent)).returned

(* C30: for the same current block, epoch length, multiplier and cutoff    *)
(* percent, in_overwatch_commit_period and get_overwatch_epoch_data use    *)
(* the same cutoff block, and in_overwatch_commit_period is true exactly   *)
(* when the computed seconds_remaining_until_reveal is strictly positive;  *)
(* at current_block equal to the cutoff block the period is over and the   *)
(* remaining value is 0.                                                   *)
C30_CommitPeriodAgreesWithReveal ==
  /\ Computed("in_overwatch_commit_period") =>
       /\ returned.kind = "bool"
       /\ SameNumber(OverwatchLocalsFor(locals).epoch_cutoff_block,
                     locals.epoch_cutoff_block)
       /\ returned.value <=>
            OverwatchLocalsFor(locals).seconds_remaining_until_reveal.num > 0
  /\ Computed("get_overwatch_epoch_data") =>
       CommitPeriodFor(locals).value <=>
         locals.seconds_remaining_until_reveal.num > 0

C30_Witness ==
  /\ Computed("in_overwatch_commit_period")
  /\ locals.current_block > 0
  /\ SameNumber(Ratio(locals.current_block, 1), locals.epoch_cutoff_block)
  /\ returned.value = FALSE
  /\ OverwatchLocalsFor(locals).seconds_remaining_until_reveal.num = 0

---------------------------------------------------------------------------
(* The write path, continued.                                              *)

(* C31: one call to update_bootnodes on a client that has a signing key    *)
(* sends the signed extrinsic to the node at most once, whatever failures  *)
(* the submit step has.                                                    *)
C31_ExtrinsicSentAtMostOnce ==
  wr.keypair => wr.submitted <= 1

---------------------------------------------------------------------------
(* The stream loop.                                                        *)

(* C32: the subnet_node_infos stream keeps publishing for every outcome of *)
(* its fetch: whether get_subnet_nodes_info_formatted returns nodes, an    *)
(* empty list or its failure value, the cycle sends one message and the    *)
(* loop goes on; a failed fetch never terminates the loop.                 *)
C32_StreamSurvivesFetch ==
  locals.kind = "stream" =>
    /\ locals.pc # "raised"
    /\ locals.pc = "sleep" => locals.sent = locals.cycle

---------------------------------------------------------------------------
(* The handlers on the event loop.                                         *)

InCall(l, t) == l.task[t].pc \in CallPcs

(* C33: with several stream handlers sharing the one client on one event   *)
(* loop, at most one query call is in progress on the shared connection at *)
(* any time, and while a call is in progress, its attempts, retry waits    *)
(* and socket closes and reconnects included, no other handler takes a     *)
(* step and only the calling handler's steps touch the connection.         *)
C33_OneCallAtATime ==
  [][/\ Cardinality({t \in Handlers : InCall(locals', t)}) <= 1
     /\ \A t \in Handlers :
          InCall(locals, t) =>
            \A u \in Handlers \ {t} : locals'.task[u] = locals.task[u]
     /\ websocket' # websocket => \E t \in Handlers : InCall(locals, t)]_vars

C33_Witness ==
  /\ locals.kind = "loop"
  /\ locals.task[1].pc = "wait"
  /\ locals.task[1].attempt_number = 2
  /\ locals.task[2].pc = "sleep"
  /\ ~websocket.connected

---------------------------------------------------------------------------
(* The epoch records.                                                      *)

(* C34: in every EpochData returned by get_epoch_data or                   *)
(* get_subnet_epoch_data, the zero state included, with epoch_length > 0:  *)
(* 1 <= blocks_remaining <= epoch_length, seconds_elapsed is               *)
(* blocks_elapsed * BLOCK_SECS, seconds_remaining is                       *)
(* blocks_remaining * BLOCK_SECS, and the two sum to seconds_per_epoch.    *)
C34_EpochDataSeconds ==
  (/\ helper \in {"get_epoch_data", "get_subnet_epoch_data"}
   /\ returned.kind = "EpochData"
   /\ returned.block_per_epoch > 0) =>
    /\ 1 <= returned.blocks_remaining
    /\ returned.blocks_remaining <= returned.block_per_epoch
    /\ returned.seconds_elapsed = returned.blocks_elapsed * BLOCK_SECS
    /\ returned.seconds_remaining = returned.blocks_remaining * BLOCK_SECS
    /\ returned.seconds_elapsed + returned.seconds_remaining
         = returned.seconds_per_epoch

C34_Witness ==
  /\ Computed("get_subnet_epoch_data")
  /\ returned.kind = "EpochData"
  /\ locals.path = "zero"
  /\ returned.block_per_epoch > 1
  /\ returned.blocks_remaining = returned.block_per_epoch
  /\ returned.seconds_remaining = returned.seconds_per_epoch

====
